---- MODULE Spec2Model ----
(***************************************************************************)
(* State-machine model of the GalaxyParlay statistical prediction engine:  *)
(*   - SmartParlayValidator        (apps/worker/app/ml/smart_parlay.py)     *)
(*   - KellyCriterion              (apps/worker/app/ml/kelly.py)            *)
(*   - ValueBetDetector            (apps/worker/app/ml/value_bets.py)       *)
(*   - EloRatingSystem             (apps/worker/app/ml/elo.py)              *)
(*                                                                         *)
(* Numbers.  The Python code works on floats.  The model keeps every       *)
(* quantity as an exact integer or an exact rational <<num, den>> (den >   *)
(* 0): correlations and probabilities in thousandths, decimal odds in      *)
(* hundredths, confidences in hundredths, Elo ratings in hundredths of a   *)
(* rating point.  Comparisons are made by cross-multiplication, so no      *)
(* threshold test is blurred by the scaling.                               *)
(***************************************************************************)
EXTENDS Integers, Sequences, FiniteSets, TLC

VARIABLES
    \* SmartParlayValidator
    correlation_pairs,   \* self.correlation_pairs: [<<market, market>> -> thousandths]
    selections,          \* the request's selections, a sequence of legs
    parlay_pc,           \* "building" | "validated"
    parlay_result,       \* (is_valid, reason, odds_penalty) of the last validation
    \* KellyCriterion
    kelly_args,          \* (model_probability, decimal_odds, confidence_score)
    kelly_pc,            \* "ready" | "done"
    kelly_result,        \* the KellyResult returned by calculate
    \* ValueBetDetector and the stores it is fed from
    detector,            \* value_detector's min_edge, min_ev, min_confidence
    predictions,         \* the fixture's model_predictions rows
    odds_snapshots,      \* the fixture's odds_snapshots rows, in insertion order
    vb_pc,               \* "collecting" | "done"
    vb_odds,             \* the odds list handed to detect_value_bets
    vb_via,              \* "none" | "direct" | "endpoint"
    value_bets,          \* the list detect_value_bets returned
    \* EloRatingSystem and the rating job that drives it
    ratings,             \* team -> overall rating, in hundredths of a point
    home_ratings,        \* team -> home rating
    away_ratings,        \* team -> away rating
    h2h_ratings,         \* <<team, opponent>> -> head-to-head rating
    recent_results,      \* team -> sequence of <<result, day>>
    last_updated,        \* team -> day of the last update
    now,                 \* datetime.utcnow(), in days
    elo_calls,           \* number of calls made on the rating system
    history_records,     \* the rating job's history_records
    \* The Elo rating jobs (calculate_elo_ratings, _recalculate_all_elo)
    team_elo,            \* the stored team_elo ratings: team -> hundredths
    job_pc,              \* "idle" | "running" | "done" | "warning"
    job_kind,            \* "none" | "calculate" | "recalculate"
    job_returned,        \* the finished fixtures as the store returned them
    all_fixtures,        \* the job's list after its sort
    job_index,           \* position of the loop over all_fixtures
    job_applied,         \* the fixtures whose updates were applied, in order
    job_teams,           \* the keys of team_stats
    job_runs,            \* number of job runs started
    job_first,           \* what the first finished run processed and stored
    \* DixonColesModel
    rho,                 \* self.rho, in 1e-4
    dc_home_advantage,   \* self.home_advantage of the model, in 1e-4
    attack_params,       \* team -> attack strength, in 1e-4
    defense_params,      \* team -> defense strength, in 1e-4
    team_names,          \* the teams that have a name
    is_fitted,           \* self._is_fitted
    dc_cache,            \* the parameters persisted in dixon_coles_cache.json
    fit_call,            \* the locals of the fit call in progress or just ended
    fit_calls,           \* number of fit calls made
    \* EloRatingSystem.predict_match
    elo_prediction,      \* what the last predict_match call returned
    \* BacktestRunner and the module-level backtesting framework
    bt_fixtures,         \* the finished fixtures fetch_test_fixtures returns
    bt_pc,               \* "idle" | "old" | "new" | "report" | "done" | "returned"
    bt_index,            \* position of the loop over the fixtures, from 1
    old_predictions,     \* what old_predictor.predict_fixture returned
    old_db_elo_loaded,   \* old_predictor._db_elo_loaded
    new_db_elo_loaded,   \* new_predictor._db_elo_loaded
    bt_results,          \* backtesting.results, as the totals the metrics take
    noisy_draws,         \* random.gauss draws away from the mean, over all runs
    first_report,        \* the metrics of the first completed run
    last_report,         \* the metrics of the run that completed last
    outcome_call,        \* the last get_actual_outcome call and what it returned
    db_elo_loaded,       \* predictor._db_elo_loaded of the module-level predictor
    batch_call,          \* the process's batch_predict call and what it returned
    score_call,          \* the process's batch_score call and what it returned
    \* model_predictions table and the runs that write it
    model_predictions,   \* the rows of the table, each tagged with the run that inserted it
    runs,                \* the runs so far: [kind, fixture_id, pc], pc "insert" | "done"
    \* one team's rolling results and its recent-form adjustment
    team_results,        \* self.recent_results[team_id]: <<result, timestamp>> pairs
    results_recorded,    \* number of results recorded so far
    form_call,     \* the last _calculate_recent_form_adjustment call
    \* the Dixon-Coles model's predictions
    dc_prediction,       \* the last predict_match call
    \* the BacktestingFramework accumulator with its per-market lists
    fw_results,          \* self.results: model type -> market key -> list of records
    fw_fixtures,         \* the fixtures of the run that fills the accumulator
    fw_index,            \* the fixtures of the run processed so far
    fw_runs,             \* run_backtest calls made in the process
    fw_added,            \* add_prediction_result calls made from outside a run
    roi_call,            \* the last calculate_roi call
    corr_call            \* the last calculate_correlation_matrix call

parlayVars == <<correlation_pairs, selections, parlay_pc, parlay_result>>

kellyVars == <<kelly_args, kelly_pc, kelly_result>>

valueBetVars ==
    <<detector, predictions, odds_snapshots, vb_pc, vb_odds, vb_via, value_bets>>

eloVars ==
    <<ratings, home_ratings, away_ratings, h2h_ratings, recent_results,
      last_updated, now, elo_calls, history_records>>

jobVars ==
    <<team_elo, job_pc, job_kind, job_returned, all_fixtures, job_index,
      job_applied, job_teams, job_runs, job_first>>

dixonColesVars ==
    <<rho, dc_home_advantage, attack_params, defense_params, team_names, is_fitted,
      dc_cache, fit_call, fit_calls>>

predictionVars ==
    <<elo_prediction>>

backtestVars ==
    <<bt_fixtures, bt_pc, bt_index, old_predictions, old_db_elo_loaded,
      new_db_elo_loaded, bt_results, noisy_draws, first_report, last_report,
      outcome_call, db_elo_loaded, batch_call, score_call>>

batchVars == <<db_elo_loaded, batch_call, score_call>>

storeVars ==
    <<model_predictions, runs>>

formVars ==
    <<team_results, results_recorded, form_call>>

dcPredictVars ==
    <<dc_prediction>>

frameworkVars ==
    <<fw_results, fw_fixtures, fw_index, fw_runs, fw_added, roi_call, corr_call>>

vars == <<parlayVars, kellyVars, valueBetVars, eloVars, jobVars, dixonColesVars, predictionVars, backtestVars, storeVars, formVars, dcPredictVars, frameworkVars>>

notParlayVars == <<kellyVars, valueBetVars, eloVars, jobVars, dixonColesVars, predictionVars, backtestVars, storeVars, formVars, dcPredictVars, frameworkVars>>

notKellyVars == <<parlayVars, valueBetVars, eloVars, jobVars, dixonColesVars, predictionVars, backtestVars, storeVars, formVars, dcPredictVars, frameworkVars>>

notValueBetVars == <<parlayVars, kellyVars, eloVars, jobVars, dixonColesVars, predictionVars, backtestVars, storeVars, formVars, dcPredictVars, frameworkVars>>

notEloVars == <<parlayVars, kellyVars, valueBetVars, jobVars, dixonColesVars, predictionVars, backtestVars, storeVars, formVars, dcPredictVars, frameworkVars>>

notJobVars == <<parlayVars, kellyVars, valueBetVars, dixonColesVars, predictionVars, backtestVars, storeVars, formVars, dcPredictVars, frameworkVars>>

notDixonColesVars == <<parlayVars, kellyVars, valueBetVars, eloVars, jobVars, predictionVars, backtestVars, storeVars, formVars, dcPredictVars, frameworkVars>>

notPredictionVars == <<parlayVars, kellyVars, valueBetVars, jobVars, dixonColesVars, backtestVars, storeVars, formVars, dcPredictVars, frameworkVars>>

notBacktestVars == <<parlayVars, kellyVars, valueBetVars, jobVars, dixonColesVars, predictionVars, storeVars, formVars, dcPredictVars, frameworkVars>>

notStoreVars == <<parlayVars, kellyVars, valueBetVars, eloVars, jobVars, dixonColesVars, predictionVars, backtestVars, formVars, dcPredictVars, frameworkVars>>

notFormVars == <<parlayVars, kellyVars, valueBetVars, eloVars, jobVars, dixonColesVars, predictionVars, backtestVars, storeVars, dcPredictVars, frameworkVars>>

notDcPredictVars == <<parlayVars, kellyVars, valueBetVars, eloVars, jobVars, predictionVars, backtestVars, storeVars, formVars, frameworkVars>>

notFrameworkVars == <<parlayVars, kellyVars, valueBetVars, eloVars, jobVars, dixonColesVars, predictionVars, backtestVars, storeVars, formVars, dcPredictVars>>

(***************************************************************************)
(* Arithmetic helpers                                                      *)
(***************************************************************************)
Abs(x) == IF x < 0 THEN -x ELSE x

Min(a, b) == IF a <= b THEN a ELSE b

Max(a, b) == IF a >= b THEN a ELSE b

RECURSIVE GCD(_, _)
GCD(a, b) == IF b = 0 THEN a ELSE GCD(b, a % b)

\* Exact rationals <<num, den>> with den > 0, kept in lowest terms
RNorm(r) ==
    LET g == GCD(Abs(r[1]), r[2]) IN <<r[1] \div g, r[2] \div g>>

RLt(a, b) == a[1] * b[2] < b[1] * a[2]

RLe(a, b) == a[1] * b[2] <= b[1] * a[2]

RMin(a, b) == IF RLe(a, b) THEN a ELSE b

RMax(a, b) == IF RLe(a, b) THEN b ELSE a

RMul(a, b) ==
    LET x == RNorm(<<a[1], b[2]>>)
        y == RNorm(<<b[1], a[2]>>)
    IN  <<x[1] * y[1], x[2] * y[2]>>

RAdd(a, b) == RNorm(<<a[1] * b[2] + b[1] * a[2], a[2] * b[2]>>)

RSub(a, b) == RAdd(a, <<-b[1], b[2]>>)

\* round(x, k) for x = r[1] / r[2] and scale = 10^k, in units of 1/scale.
\* Python rounds the binary float; when the exact value lies half-way
\* between two decimals the float may fall on either side, so both
\* neighbours are possible results.
RoundTo(r, scale) ==
    LET x   == RMul(RNorm(r), <<scale, 1>>)
        fl  == x[1] \div x[2]
        rem == x[1] % x[2]
    IN  IF 2 * rem < x[2] THEN {fl}
        ELSE IF 2 * rem > x[2] THEN {fl + 1}
        ELSE {fl, fl + 1}

(***************************************************************************)
(* Market keys.  A market key such as "over_under_2_5_over" is kept as the *)
(* sequence of its "_"-separated tokens, so that rsplit("_", 1) and the    *)
(* substring tests of _estimate_correlation are computed, not assumed.     *)
(***************************************************************************)
OU25_OVER  == <<"over", "under", "2", "5", "over">>
OU25_UNDER == <<"over", "under", "2", "5", "under">>
OU35_OVER  == <<"over", "under", "3", "5", "over">>
OU35_UNDER == <<"over", "under", "3", "5", "under">>
OU15_OVER  == <<"over", "under", "1", "5", "over">>
OU15_UNDER == <<"over", "under", "1", "5", "under">>
MW_HOME    == <<"match", "winner", "home", "win">>
MW_DRAW    == <<"match", "winner", "draw">>
MW_AWAY    == <<"match", "winner", "away", "win">>
CORNERS_OVER == <<"corners", "9", "5", "over">>
CARDS_OVER   == <<"cards", "4", "5", "over">>

\* SMART_PARLAY_CONFIG, in thousandths
HighCorrelationThreshold == 700

ModerateCorrelationThreshold == 300

ModerateCorrelationPenalty == 950

NoPenalty == 1000

\* HIGH_CORRELATION_PAIRS, in thousandths
HIGH_CORRELATION_PAIRS ==
    ( <<OU25_OVER, OU35_OVER>>   :> 681 ) @@
    ( <<OU25_OVER, OU15_OVER>>   :> 580 ) @@
    ( <<OU25_UNDER, OU35_UNDER>> :> 681 ) @@
    ( <<OU25_UNDER, OU15_UNDER>> :> 580 ) @@
    ( <<OU25_OVER, OU25_UNDER>>  :> -1000 ) @@
    ( <<OU15_OVER, OU15_UNDER>>  :> -1000 ) @@
    ( <<OU35_OVER, OU35_UNDER>>  :> -1000 ) @@
    ( <<MW_HOME, MW_DRAW>>       :> -516 ) @@
    ( <<MW_HOME, MW_AWAY>>       :> -563 ) @@
    ( <<MW_DRAW, MW_AWAY>>       :> -418 )

\* A correlation table is derived from a backtest; besides the shipped table
\* the model admits tables that know one further pair (corners vs cards)
\* with a coefficient around the two thresholds.
MeasuredCorrelations == {290, 300, 690, 700, 710, -710}

CorrelationTables ==
    {HIGH_CORRELATION_PAIRS} \cup
    { (<<CORNERS_OVER, CARDS_OVER>> :> c) @@ HIGH_CORRELATION_PAIRS :
        c \in MeasuredCorrelations }

\* Inputs of validate_parlay
MaxLegs == 3

NoFixture == 0

FixtureIds == {NoFixture, 1, 2}

MarketKeys == {OU25_OVER, OU25_UNDER, OU35_OVER, MW_HOME, CORNERS_OVER, CARDS_OVER}

Legs == [fixture_id : FixtureIds, market_key : MarketKeys]

(***************************************************************************)
(* SmartParlayValidator                                                    *)
(***************************************************************************)
\* market.rsplit("_", 1)[0]
RSplitHead(m) == IF Len(m) >= 2 THEN SubSeq(m, 1, Len(m) - 1) ELSE m

\* "a_b" in market, for two whole tokens a, b
HasTokens(m, a, b) == \E i \in 1..(Len(m) - 1) : m[i] = a /\ m[i + 1] = b

IsOverUnder(m) == HasTokens(m, "over", "under")

IsMatchWinner(m) == HasTokens(m, "match", "winner")

EstimateCorrelation(market1, market2) ==
    IF RSplitHead(market1) = RSplitHead(market2) /\ market1 # market2 THEN -1000
    ELSE IF IsOverUnder(market1) /\ IsOverUnder(market2) THEN 600
    ELSE IF IsMatchWinner(market1) /\ IsOverUnder(market2) THEN 50
    ELSE IF IsMatchWinner(market2) /\ IsOverUnder(market1) THEN 50
    ELSE IF IsMatchWinner(market1) /\ IsMatchWinner(market2) THEN -500
    ELSE 150

GetCorrelation(tbl, market1, market2) ==
    IF <<market1, market2>> \in DOMAIN tbl THEN tbl[<<market1, market2>>]
    ELSE IF <<market2, market1>> \in DOMAIN tbl THEN tbl[<<market2, market1>>]
    ELSE EstimateCorrelation(market1, market2)

\* _get_same_fixture_markets: the dict's keys in insertion order ...
RECURSIVE FixtureOrder(_, _)
FixtureOrder(sels, seen) ==
    IF sels = <<>> THEN <<>>
    ELSE LET s == Head(sels) IN
         IF s.fixture_id # NoFixture /\ Len(s.market_key) > 0
                /\ s.fixture_id \notin seen
         THEN <<s.fixture_id>> \o FixtureOrder(Tail(sels), seen \cup {s.fixture_id})
         ELSE FixtureOrder(Tail(sels), seen)

\* faulty variant: every selection is grouped under every fixture id
RECURSIVE MarketsOfAnyFixture(_, _)
MarketsOfAnyFixture(sels, f) ==
    IF sels = <<>> THEN <<>>
    ELSE <<Head(sels).market_key>> \o MarketsOfAnyFixture(Tail(sels), f)

\* ... and the list of market keys kept for one fixture id
RECURSIVE MarketsOfFixture(_, _)
MarketsOfFixture(sels, f) ==
    IF sels = <<>> THEN <<>>
    ELSE LET s == Head(sels) IN
         IF s.fixture_id = f /\ s.fixture_id # NoFixture /\ Len(s.market_key) > 0
         THEN <<s.market_key>> \o MarketsOfFixture(Tail(sels), f)
         ELSE MarketsOfFixture(Tail(sels), f)

GetSameFixtureMarkets(sels) ==
    [order |-> FixtureOrder(sels, {}),
     markets |-> [f \in {FixtureOrder(sels, {})[i] :
                            i \in 1..Len(FixtureOrder(sels, {}))}
                    |-> MarketsOfFixture(sels, f)]]

NoVerdict == [is_valid |-> TRUE, reason |-> "none", odds_penalty |-> NoPenalty]

\* faulty variant: the high threshold compared with >= instead of >
IsHighCorrelationInclusive(c) == Abs(c) >= HighCorrelationThreshold

IsHighCorrelation(c) == Abs(c) > HighCorrelationThreshold

IsModerateCorrelation(c) == Abs(c) > ModerateCorrelationThreshold

\* The two nested loops over one fixture's markets: `for i, market1 in
\* enumerate(markets): for market2 in markets[i + 1:]`, returning at the first
\* pair that exceeds a threshold.
RECURSIVE ScanMarkets(_, _, _, _)
ScanMarkets(tbl, ms, i, j) ==
    IF i > Len(ms) THEN NoVerdict
    ELSE IF j > Len(ms) THEN ScanMarkets(tbl, ms, i + 1, i + 2)
    ELSE LET c == GetCorrelation(tbl, ms[i], ms[j]) IN
         IF IsHighCorrelation(c)
         THEN [is_valid |-> FALSE, reason |-> "high_correlation",
               odds_penalty |-> NoPenalty]
         ELSE IF IsModerateCorrelation(c)
         THEN [is_valid |-> TRUE, reason |-> "moderate_correlation",
               odds_penalty |-> ModerateCorrelationPenalty]
         ELSE ScanMarkets(tbl, ms, i, j + 1)

\* The outer loop `for fixture_id, markets in same_fixture_markets.items()`
RECURSIVE ScanFixtures(_, _, _)
ScanFixtures(tbl, groups, k) ==
    IF k > Len(groups.order)
    THEN [is_valid |-> TRUE, reason |-> "valid", odds_penalty |-> NoPenalty]
    ELSE LET ms == groups.markets[groups.order[k]] IN
         IF Len(ms) < 2 THEN ScanFixtures(tbl, groups, k + 1)
         ELSE LET r == ScanMarkets(tbl, ms, 1, 2) IN
              IF r # NoVerdict THEN r ELSE ScanFixtures(tbl, groups, k + 1)

ValidateParlayResult(tbl, sels) ==
    IF Len(sels) <= 1
    THEN [is_valid |-> TRUE, reason |-> "single", odds_penalty |-> NoPenalty]
    ELSE ScanFixtures(tbl, GetSameFixtureMarkets(sels), 1)

ParlayInit ==
    /\ correlation_pairs \in CorrelationTables
    /\ selections = <<>>
    /\ parlay_pc = "building"
    /\ parlay_result = NoVerdict

\* A client adds a selection to the request it is assembling
AddSelection ==
    /\ parlay_pc = "building"
    /\ Len(selections) < MaxLegs
    /\ \E leg \in Legs : selections' = Append(selections, leg)
    /\ UNCHANGED <<correlation_pairs, parlay_pc, parlay_result>>
    /\ UNCHANGED notParlayVars

\* SmartParlayValidator.validate_parlay(selections)
ValidateParlay ==
    /\ parlay_pc = "building"
    /\ parlay_result' = ValidateParlayResult(correlation_pairs, selections)
    /\ parlay_pc' = "validated"
    /\ UNCHANGED <<correlation_pairs, selections>>
    /\ UNCHANGED notParlayVars

\* The next request starts from an empty selection list
NewParlay ==
    /\ parlay_pc = "validated"
    /\ selections' = <<>>
    /\ parlay_pc' = "building"
    /\ parlay_result' = NoVerdict
    /\ UNCHANGED correlation_pairs
    /\ UNCHANGED notParlayVars

\* The validator of a process that serves no parlay request
ParlayIdle ==
    /\ correlation_pairs = HIGH_CORRELATION_PAIRS
    /\ selections = <<>>
    /\ parlay_pc = "building"
    /\ parlay_result = NoVerdict

(***************************************************************************)
(* KellyCriterion.  model_probability p = pn / 1000, decimal_odds o =       *)
(* on / 100, confidence_score c = cn / 100.                                *)
(***************************************************************************)
\* KellyCriterion.__init__ defaults
MaxKelly == <<25, 100>>

MinEdge == <<2, 100>>

MinProbability == 100

MaxProbability == 950

KellyProbabilities ==
    {-50, 0, 50, 99, 100, 120, 270, 519, 520, 550, 600, 900, 950, 951, 999, 1000, 1050}

KellyOdds == {50, 100, 101, 120, 150, 200, 400, 1000, 2000}

KellyConfidences == {0, 50, 70, 80, 100}

KellyArgs == [p : KellyProbabilities, odds : KellyOdds, conf : KellyConfidences]

\* edge = model_probability - 1 / decimal_odds
KellyEdge(pn, on) == RNorm(<<pn * on - 100000, 1000 * on>>)

\* kelly_fraction = (b * p - q) / b with b = decimal_odds - 1, q = 1 - p
FullKelly(pn, on) == RNorm(<<pn * on - 100000, 1000 * (on - 100)>>)

\* expected_value = p * b - q
KellyExpectedValue(pn, on) == RNorm(<<pn * on - 100000, 100000>>)

\* The code compares binary64 values.  With p in thousandths and odds in
\* hundredths a computed edge differs from a threshold by at least 1e-8
\* unless the exact edge equals the threshold; there the binary64 value of
\* `model_probability - 1 / decimal_odds` decides.  These are all the inputs
\* whose exact edge equals 0.02, 0.03, 0.05 or 0.10 and whose binary64 edge
\* lies below that threshold's binary64 value (0.12 - 1/10.0 is
\* 0.01999999999999999); for the other such inputs the binary64 edge is equal
\* to it or above it (0.52 - 1/2.0 is 0.020000000000000018).
BinaryEdgeBelow ==
    { <<22, 50000>>, <<30, 10000>>, <<36, 6250>>, <<45, 4000>>, <<52, 3125>>,
      <<60, 2500>>, <<120, 1000>>, <<145, 800>>, <<180, 625>>, <<220, 500>>,
      <<420, 250>>, <<820, 125>>,
      <<430, 250>>, <<830, 125>>,
      <<51, 100000>>, <<52, 50000>>, <<60, 10000>>, <<75, 4000>>, <<90, 2500>>,
      <<150, 1000>>, <<175, 800>>, <<210, 625>>, <<250, 500>>, <<300, 400>>,
      <<450, 250>>, <<850, 125>>,
      <<102, 50000>>, <<104, 25000>>, <<105, 20000>>, <<120, 5000>>,
      <<150, 2000>>, <<180, 1250>>, <<300, 500>>, <<350, 400>>, <<500, 250>>,
      <<600, 200>>, <<725, 160>>, <<900, 125>> }

\* Likewise for `(b * p - q) / b` where the exact Kelly fraction is 0: the
\* inputs whose binary64 value is a positive number.
BinaryKellyPositive ==
    { <<25, 4000>>, <<50, 2000>>, <<400, 250>>, <<625, 160>>, <<800, 125>> }

\* edge < threshold, on the computed binary64 values
EdgeLt(pn, on, threshold) ==
    \/ RLt(KellyEdge(pn, on), threshold)
    \/ KellyEdge(pn, on) = RNorm(threshold) /\ <<pn, on>> \in BinaryEdgeBelow

\* edge >= threshold
EdgeGe(pn, on, threshold) == ~EdgeLt(pn, on, threshold)

\* kelly_fraction <= 0
KellyNotPositive(pn, on) ==
    \/ RLt(FullKelly(pn, on), <<0, 1>>)
    \/ FullKelly(pn, on)[1] = 0 /\ <<pn, on>> \notin BinaryKellyPositive

\* edge < self.min_edge
EdgeBelowMinimum(pn, on) == EdgeLt(pn, on, MinEdge)

\* faulty variant: the cap is forgotten
UncappedKelly(f) == f

\* kelly_fraction = min(kelly_fraction, self.max_kelly)
CappedKelly(f) == RMin(f, MaxKelly)

\* confidence_multiplier = 0.5 + (confidence_score * 0.5)
ConfidenceMultiplier(cn) == RNorm(<<100 + cn, 200>>)

AdjustedKelly(pn, on, cn) ==
    RMul(CappedKelly(FullKelly(pn, on)), ConfidenceMultiplier(cn))

KellyConfidenceLevel(pn, on, cn) ==
    IF cn >= 80 /\ EdgeGe(pn, on, <<10, 100>>) THEN "high"
    ELSE IF cn >= 60 /\ EdgeGe(pn, on, <<5, 100>>) THEN "medium"
    ELSE "low"

\* _generate_recommendation, by its kind; a half_kelly of exactly 0.01 may
\* lie on either side of the binary64 0.01
GenerateRecommendation(half, confidence) ==
    LET strength == IF confidence = "high" THEN "strong"
                    ELSE IF confidence = "medium" THEN "moderate"
                    ELSE "speculative"
    IN  IF RLt(half, <<1, 100>>) THEN {"skip"}
        ELSE IF half = <<1, 100>> THEN {"skip", strength}
        ELSE {strength}

\* _no_bet_result(reason, edge); edges are reported in units of 0.0001
NoBetResults(reason, edge) ==
    { [kelly_fraction |-> 0, half_kelly |-> 0, quarter_kelly |-> 0, edge |-> e,
       expected_value |-> 0, is_value_bet |-> FALSE, confidence |-> "none",
       recommendation |-> reason] : e \in RoundTo(edge, 10000) }

\* KellyCriterion.calculate: the set of results it can return (more than one
\* only where a rounding falls on an exact half)
KellyCalculate(pn, on, cn) ==
    IF pn <= 0 \/ pn >= 1000 THEN NoBetResults("invalid_probability", <<0, 1>>)
    ELSE IF on <= 100 THEN NoBetResults("invalid_odds", <<0, 1>>)
    ELSE IF KellyNotPositive(pn, on)
         THEN NoBetResults("negative_kelly", KellyEdge(pn, on))
    ELSE IF EdgeBelowMinimum(pn, on)
         THEN NoBetResults("edge_too_small", KellyEdge(pn, on))
    ELSE IF pn < MinProbability THEN NoBetResults("probability_too_low", <<0, 1>>)
    ELSE IF pn > MaxProbability THEN NoBetResults("probability_too_high", <<0, 1>>)
    ELSE LET adjusted == AdjustedKelly(pn, on, cn)
             half     == RMul(adjusted, <<1, 2>>)
             quarter  == RMul(adjusted, <<1, 4>>)
             level    == KellyConfidenceLevel(pn, on, cn)
         IN  { [kelly_fraction |-> k, half_kelly |-> h, quarter_kelly |-> q,
                edge |-> e, expected_value |-> v,
                is_value_bet |-> (EdgeGe(pn, on, MinEdge)
                                    /\ ~KellyNotPositive(pn, on)),
                confidence |-> level,
                recommendation |-> rec] :
                  rec \in GenerateRecommendation(RNorm(half), level),
                  k \in RoundTo(adjusted, 10000), h \in RoundTo(half, 10000),
                  q \in RoundTo(quarter, 10000),
                  e \in RoundTo(KellyEdge(pn, on), 10000),
                  v \in RoundTo(KellyExpectedValue(pn, on), 10000) }

NoKellyResult ==
    [kelly_fraction |-> 0, half_kelly |-> 0, quarter_kelly |-> 0, edge |-> 0,
     expected_value |-> 0, is_value_bet |-> FALSE, confidence |-> "none",
     recommendation |-> "not_called"]

KellyInit ==
    /\ kelly_args \in KellyArgs
    /\ kelly_pc = "ready"
    /\ kelly_result = NoKellyResult

KellyIdle ==
    /\ kelly_args = [p |-> 600, odds |-> 200, conf |-> 80]
    /\ kelly_pc = "ready"
    /\ kelly_result = NoKellyResult

\* kelly_calculator.calculate(model_probability, decimal_odds, confidence_score)
KellyCalculateCall ==
    /\ kelly_pc = "ready"
    /\ kelly_result' \in KellyCalculate(kelly_args.p, kelly_args.odds, kelly_args.conf)
    /\ kelly_pc' = "done"
    /\ UNCHANGED kelly_args
    /\ UNCHANGED notKellyVars

(***************************************************************************)
(* ValueBetDetector.  Probabilities in thousandths, odds in hundredths,    *)
(* confidence in hundredths, thresholds min_edge / min_ev in thousandths.  *)
(***************************************************************************)
\* ValueBetDetector class constants, odds in hundredths
MinOdds == 120

MaxOdds == 1000

VbMaxKelly == <<1, 10>>

DefaultDetector == [min_edge |-> 30, min_ev |-> 20, min_confidence |-> 40]

\* The thresholds a get_value_bets request can carry
DetectorConfigs == {DefaultDetector, [min_edge |-> 50, min_ev |-> 100, min_confidence |-> 40]}

\* get_latest_odds: .limit(10)
OddsQueryLimit == 10

MaxPredictions == 2

MaxSnapshots == 2

\* str(line) of an over/under line given in tenths, piece by piece
StrOfLine(line) == <<ToString(line \div 10), ".", ToString(line % 10)>>

\* str.replace(old, new)
ReplaceIn(pieces, old, new) ==
    [i \in DOMAIN pieces |-> IF pieces[i] = old THEN new ELSE pieces[i]]

RECURSIVE JoinPieces(_)
JoinPieces(pieces) ==
    IF pieces = <<>> THEN "" ELSE Head(pieces) \o JoinPieces(Tail(pieces))

\* predict_fixture: market_key = f"over_under_{str(line).replace('.', '_')}"
OverUnderMarketKey(line) ==
    "over_under_" \o JoinPieces(ReplaceIn(StrOfLine(line), ".", "_"))

\* _normalize_market_key: the key an odds snapshot is stored under
NormalizeMarketKey(api_market_name) ==
    CASE api_market_name = "Match Winner" -> "match_winner"
      [] api_market_name = "Home/Away" -> "match_winner"
      [] api_market_name = "Goals Over/Under" -> "over_under_2.5"
      [] api_market_name = "Both Teams Score" -> "both_teams_score"
      [] api_market_name = "Double Chance" -> "double_chance"
      [] api_market_name = "Asian Handicap" -> "asian_handicap"
      [] OTHER -> api_market_name

\* Rows the prediction store can hold for the fixture
PredictionInputs ==
    { [market_key |-> "match_winner",
       prediction |-> [home_win |-> 530, draw |-> 250, away_win |-> 220],
       confidence_score |-> c, quality_grade |-> "A"] : c \in {39, 40} }
    \cup
    { [market_key |-> m, prediction |-> [over |-> 600, under |-> 400],
       confidence_score |-> c, quality_grade |-> "B"] :
         m \in {"over_under_2.5", OverUnderMarketKey(25)}, c \in {39, 40} }

\* Rows the odds store can hold for the fixture
SnapshotInputs ==
    { [market_key |-> NormalizeMarketKey("Match Winner"), snapshot_at |-> t, bookmaker |-> "Bet365",
       odds_data |-> [home |-> 200, draw |-> 350, away |-> 1100]] : t \in {1, 2} }
    \cup
    { [market_key |-> NormalizeMarketKey("Match Winner"), snapshot_at |-> t, bookmaker |-> "Pinnacle",
       odds_data |-> [home |-> 119, draw |-> 450, away |-> 1000]] : t \in {1, 2} }
    \cup
    { [market_key |-> NormalizeMarketKey("Goals Over/Under"), snapshot_at |-> t, bookmaker |-> "Bet365",
       odds_data |-> [over |-> 200, under |-> 190]] : t \in {1, 2} }
    \cup
    { [market_key |-> NormalizeMarketKey("Goals Over/Under"), snapshot_at |-> t, bookmaker |-> "Pinnacle",
       odds_data |-> [over |-> 120, under |-> 300]] : t \in {1, 2} }

\* dict.get(key, default)
DictGet(d, k, default) == IF k \in DOMAIN d THEN d[k] ELSE default

\* calculate_implied_probability
ImpliedProbability(on) == IF on <= 100 THEN <<1, 1>> ELSE RNorm(<<100, on>>)

\* calculate_edge(model_prob, implied_prob)
CalculateEdge(pn, on) == RSub(<<pn, 1000>>, ImpliedProbability(on))

\* calculate_expected_value: (model_prob * (odds - 1)) - (1 - model_prob)
CalculateExpectedValue(pn, on) == RNorm(<<pn * on - 100000, 100000>>)

\* calculate_kelly_fraction
CalculateKellyFraction(pn, on) ==
    IF on <= 100 THEN <<0, 1>>
    ELSE RMax(<<0, 1>>, RMin(RNorm(<<pn * on - 100000, 1000 * (on - 100)>>), VbMaxKelly))

GradeMultiplier(grade) ==
    CASE grade = "A" -> <<3, 2>>
      [] grade = "B" -> <<6, 5>>
      [] grade = "C" -> <<1, 1>>
      [] grade = "D" -> <<4, 5>>
      [] grade = "F" -> <<1, 2>>
      [] OTHER -> <<1, 1>>

\* calculate_value_score
CalculateValueScore(edge, ev, confidence, grade) ==
    LET edge_score == RMul(RMin(RMul(edge, <<100, 15>>), <<1, 1>>), <<40, 1>>)
        ev_score   == RMul(RMin(RMul(ev, <<100, 20>>), <<1, 1>>), <<30, 1>>)
        conf_score == RNorm(<<confidence * 30, 100>>)
    IN  RMul(RAdd(RAdd(edge_score, ev_score), conf_score), GradeMultiplier(grade))

\* The inputs whose exact expected value equals 0.02 or 0.10 and whose
\* binary64 expected value lies below that threshold's binary64 value.
BinaryEvBelow ==
    { <<15, 6800>>, <<75, 1360>>, <<100, 1020>>, <<102, 1000>>, <<120, 850>>,
      <<200, 510>>, <<204, 500>>, <<408, 250>>, <<600, 170>>, <<816, 125>>,
      <<850, 120>>,
      <<1, 110000>>, <<5, 22000>>, <<11, 10000>>, <<22, 5000>>, <<25, 4400>>,
      <<55, 2000>>, <<80, 1375>>, <<88, 1250>>, <<100, 1100>>, <<110, 1000>>,
      <<176, 625>>, <<200, 550>>, <<220, 500>>, <<440, 250>>, <<625, 176>> }

\* edge >= self.min_edge
EdgeQualifies(pn, on, cfg) ==
    LET t == RNorm(<<cfg.min_edge, 1000>>) IN
    \/ RLt(t, CalculateEdge(pn, on))
    \/ CalculateEdge(pn, on) = t /\ <<pn, on>> \notin BinaryEdgeBelow

\* ev >= self.min_ev
EvQualifies(pn, on, cfg) ==
    LET t == RNorm(<<cfg.min_ev, 1000>>) IN
    \/ RLt(t, CalculateExpectedValue(pn, on))
    \/ CalculateExpectedValue(pn, on) = t /\ <<pn, on>> \notin BinaryEvBelow

\* faulty variant: the odds band is not enforced
AnyOddsAccepted(on) == FALSE

\* bookmaker_odds < self.MIN_ODDS or bookmaker_odds > self.MAX_ODDS
OddsOutOfBand(on) == on < MinOdds \/ on > MaxOdds

\* confidence < self.min_confidence
ConfidenceTooLow(confidence, cfg) == confidence < cfg.min_confidence

\* _analyze_market: prediction key -> odds key, per known market
MarketMappings(market_key) ==
    CASE market_key = "match_winner" ->
             << <<"home_win", "home">>, <<"draw", "draw">>, <<"away_win", "away">> >>
      [] market_key = "over_under_2.5" ->
             << <<"over", "over">>, <<"under", "under">> >>
      [] market_key = "both_teams_score" ->
             << <<"yes", "yes">>, <<"no", "no">> >>
      [] OTHER -> <<>>

\* _get_selection_name, with the default team names "Home" and "Away"
GetSelectionName(market_key, selection_key) ==
    IF market_key = "match_winner"
    THEN (IF selection_key = "home_win" THEN "Home Win"
          ELSE IF selection_key = "away_win" THEN "Away Win" ELSE "Draw")
    ELSE IF market_key = "over_under_2.5"
    THEN (IF selection_key = "over" THEN "Over 2.5 Goals" ELSE "Under 2.5 Goals")
    ELSE IF market_key = "both_teams_score"
    THEN (IF selection_key = "yes" THEN "Both Teams Score" ELSE "BTTS No")
    ELSE selection_key

\* The body of the loop `for pred_key, odds_key in mappings`
RECURSIVE AnalyzeMappings(_, _, _, _, _, _, _, _, _)
AnalyzeMappings(mappings, k, fixture_id, market_key, prediction_data, odds_data, bookmaker, pred, cfg) ==
    IF k > Len(mappings) THEN <<>>
    ELSE LET model_prob     == DictGet(prediction_data, mappings[k][1], 0)
             bookmaker_odds == DictGet(odds_data, mappings[k][2], 0)
             rest == AnalyzeMappings(mappings, k + 1, fixture_id, market_key,
                                     prediction_data, odds_data, bookmaker, pred, cfg)
         IN  IF model_prob = 0 \/ bookmaker_odds = 0 THEN rest
             ELSE IF OddsOutOfBand(bookmaker_odds) THEN rest
             ELSE IF EdgeQualifies(model_prob, bookmaker_odds, cfg)
                        /\ EvQualifies(model_prob, bookmaker_odds, cfg)
             THEN << [fixture_id |-> fixture_id,
                      market_key |-> market_key,
                      selection |-> GetSelectionName(market_key, mappings[k][1]),
                      model_probability |-> model_prob,
                      implied_probability |-> ImpliedProbability(bookmaker_odds),
                      bookmaker_odds |-> bookmaker_odds,
                      bookmaker |-> bookmaker,
                      edge |-> CalculateEdge(model_prob, bookmaker_odds),
                      expected_value |->
                          CalculateExpectedValue(model_prob, bookmaker_odds),
                      kelly_fraction |->
                          CalculateKellyFraction(model_prob, bookmaker_odds),
                      confidence_score |-> pred.confidence,
                      quality_grade |-> pred.grade,
                      value_score |->
                          CalculateValueScore(
                              CalculateEdge(model_prob, bookmaker_odds),
                              CalculateExpectedValue(model_prob, bookmaker_odds),
                              pred.confidence, pred.grade)] >> \o rest
             ELSE rest

AnalyzeMarket(fixture_id, market_key, prediction_data, odds_data, bookmaker, confidence, quality_grade, cfg) ==
    AnalyzeMappings(MarketMappings(market_key), 1, fixture_id, market_key,
                    prediction_data, odds_data, bookmaker,
                    [confidence |-> confidence, grade |-> quality_grade], cfg)

\* faulty variant: a later snapshot of a market overwrites an earlier one
LastOddsByMarket(odds_list) ==
    [m \in {odds_list[i].market_key : i \in 1..Len(odds_list)} |->
        odds_list[CHOOSE i \in 1..Len(odds_list) :
                     /\ odds_list[i].market_key = m
                     /\ \A j \in 1..Len(odds_list) :
                            odds_list[j].market_key = m => j <= i]]

\* odds_by_market: `if market not in odds_by_market: odds_by_market[market] = o`
OddsByMarket(odds_list) ==
    [m \in {odds_list[i].market_key : i \in 1..Len(odds_list)} |->
        odds_list[CHOOSE i \in 1..Len(odds_list) :
                     /\ odds_list[i].market_key = m
                     /\ \A j \in 1..Len(odds_list) :
                            odds_list[j].market_key = m => i <= j]]

\* quality_by_market = {q["market_key"]: q for q in quality_scores}
QualityByMarket(quality_scores) ==
    [m \in {quality_scores[i].market_key : i \in 1..Len(quality_scores)} |->
        quality_scores[CHOOSE i \in 1..Len(quality_scores) :
                     /\ quality_scores[i].market_key = m
                     /\ \A j \in 1..Len(quality_scores) :
                            quality_scores[j].market_key = m => j <= i]]

\* The loop `for pred in predictions` of one fixture
RECURSIVE AnalyzePredictions(_, _, _, _)
AnalyzePredictions(fixture, k, odds_by_market, cfg) ==
    IF k > Len(fixture.predictions) THEN <<>>
    ELSE LET pred == fixture.predictions[k]
             rest == AnalyzePredictions(fixture, k + 1, odds_by_market, cfg)
             quality_by_market == QualityByMarket(fixture.quality_scores)
         IN  IF ConfidenceTooLow(pred.confidence_score, cfg) THEN rest
             ELSE IF pred.market_key \notin DOMAIN odds_by_market THEN rest
             ELSE LET snap == odds_by_market[pred.market_key]
                      grade == IF pred.market_key \in DOMAIN quality_by_market
                               THEN quality_by_market[pred.market_key].final_grade
                               ELSE pred.quality_grade
                  IN  AnalyzeMarket(fixture.id, pred.market_key, pred.prediction,
                                    snap.odds_data, snap.bookmaker,
                                    pred.confidence_score, grade, cfg) \o rest

\* The loop `for fixture in fixtures`
RECURSIVE AnalyzeFixtures(_, _, _)
AnalyzeFixtures(fixtures, k, cfg) ==
    IF k > Len(fixtures) THEN <<>>
    ELSE LET fixture == fixtures[k] IN
         IF fixture.predictions = <<>> \/ fixture.odds = <<>>
         THEN AnalyzeFixtures(fixtures, k + 1, cfg)
         ELSE AnalyzePredictions(fixture, 1, OddsByMarket(fixture.odds), cfg)
                  \o AnalyzeFixtures(fixtures, k + 1, cfg)

\* value_bets.sort(key=lambda x: x.value_score, reverse=True), a stable sort
RECURSIVE InsertByScore(_, _)
InsertByScore(sorted, b) ==
    IF sorted = <<>> THEN <<b>>
    ELSE IF RLt(Head(sorted).value_score, b.value_score) THEN <<b>> \o sorted
    ELSE <<Head(sorted)>> \o InsertByScore(Tail(sorted), b)

RECURSIVE SortByScore(_, _)
SortByScore(bets, sorted) ==
    IF bets = <<>> THEN sorted
    ELSE SortByScore(Tail(bets), InsertByScore(sorted, Head(bets)))

\* ValueBetDetector.detect_value_bets(fixtures)
DetectValueBets(fixtures, cfg) == SortByScore(AnalyzeFixtures(fixtures, 1, cfg), <<>>)

\* The enriched fixture a caller builds from the stores
EnrichedFixture(preds, odds) ==
    [id |-> 1, predictions |-> preds, quality_scores |-> <<>>, odds |-> odds]

\* DatabaseService.get_latest_odds: order("snapshot_at", desc=True).limit(10);
\* rows with equal snapshot_at come back in an order the store chooses
GetLatestOdds(rows) ==
    LET n == Len(rows)
        orders == { f \in [1..n -> 1..n] :
                      /\ \A i, j \in 1..n : i # j => f[i] # f[j]
                      /\ \A i, j \in 1..n :
                            i < j => rows[f[i]].snapshot_at >= rows[f[j]].snapshot_at }
    IN  { [i \in 1..Min(n, OddsQueryLimit) |-> rows[f[i]]] : f \in orders }

ValueBetInit ==
    /\ detector = DefaultDetector
    /\ predictions = <<>>
    /\ odds_snapshots = <<>>
    /\ vb_pc = "collecting"
    /\ vb_odds = <<>>
    /\ vb_via = "none"
    /\ value_bets = <<>>

\* DatabaseService.upsert_predictions adds a row for the fixture
StorePrediction ==
    /\ vb_pc = "collecting"
    /\ Len(predictions) < MaxPredictions
    /\ \E pred \in PredictionInputs : predictions' = Append(predictions, pred)
    /\ UNCHANGED <<detector, odds_snapshots, vb_pc, vb_odds, vb_via, value_bets>>
    /\ UNCHANGED notValueBetVars

\* DatabaseService.insert_odds_snapshots adds a row for the fixture
InsertOddsSnapshot ==
    /\ vb_pc = "collecting"
    /\ Len(odds_snapshots) < MaxSnapshots
    /\ \E snap \in SnapshotInputs : odds_snapshots' = Append(odds_snapshots, snap)
    /\ UNCHANGED <<detector, predictions, vb_pc, vb_odds, vb_via, value_bets>>
    /\ UNCHANGED notValueBetVars

\* value_detector.detect_value_bets called on a fixture whose odds list is
\* in the order the rows were collected
DetectValueBetsCall ==
    /\ vb_pc = "collecting"
    /\ vb_odds' = odds_snapshots
    /\ vb_via' = "direct"
    /\ value_bets' =
           DetectValueBets(<<EnrichedFixture(predictions, odds_snapshots)>>, detector)
    /\ vb_pc' = "done"
    /\ UNCHANGED <<detector, predictions, odds_snapshots>>
    /\ UNCHANGED notValueBetVars

\* GET /value-bets: sets the detector's thresholds, enriches the fixture with
\* get_latest_odds and calls detect_value_bets (whose return is recorded)
GetValueBetsEndpoint ==
    /\ vb_pc = "collecting"
    /\ \E cfg \in DetectorConfigs, odds \in GetLatestOdds(odds_snapshots) :
          /\ detector' = cfg
          /\ vb_odds' = odds
          /\ value_bets' =
                 IF predictions # <<>> /\ odds # <<>>
                 THEN DetectValueBets(<<EnrichedFixture(predictions, odds)>>, cfg)
                 ELSE DetectValueBets(<<>>, cfg)
    /\ vb_via' = "endpoint"
    /\ vb_pc' = "done"
    /\ UNCHANGED <<predictions, odds_snapshots>>
    /\ UNCHANGED notValueBetVars

\* The next request; the stores start over, the singleton detector keeps the
\* thresholds of the last request
NextValueBetRequest ==
    /\ vb_pc = "done"
    /\ predictions' = <<>>
    /\ odds_snapshots' = <<>>
    /\ vb_odds' = <<>>
    /\ vb_via' = "none"
    /\ value_bets' = <<>>
    /\ vb_pc' = "collecting"
    /\ UNCHANGED detector
    /\ UNCHANGED notValueBetVars

ValueBetIdle == ValueBetInit

(***************************************************************************)
(* EloRatingSystem.  Ratings in hundredths of a point (the precision the   *)
(* rating job stores), expected scores in 1e-5, match results in halves    *)
(* (0 loss, 1 draw, 2 win), time in days.                                  *)
(***************************************************************************)
\* DEFAULT_RATINGS, in points
DEFAULT_RATINGS ==
    (39 :> 1600) @@ (140 :> 1580) @@ (78 :> 1560) @@ (135 :> 1540) @@ (61 :> 1520)
    @@ (94 :> 1450) @@ (88 :> 1440) @@ (203 :> 1420) @@ (2 :> 1650) @@ (3 :> 1550)

\* TOP_TEAM_BONUSES, in points
TOP_TEAM_BONUSES ==
    (50 :> 120) @@ (40 :> 100) @@ (42 :> 90) @@ (33 :> 70) @@ (49 :> 60)
    @@ (47 :> 50) @@ (541 :> 130) @@ (529 :> 120) @@ (530 :> 130) @@ (532 :> 70)
    @@ (157 :> 110) @@ (165 :> 60) @@ (173 :> 50) @@ (168 :> 55) @@ (489 :> 80)
    @@ (496 :> 75) @@ (505 :> 85) @@ (85 :> 100)

\* DEFAULT_RATINGS.get(league_id, 1500)
DefaultLeagueRating == 1500

\* max(1200, min(2000, .)), in hundredths of a point
MinRating == 120000

MaxRating == 200000

\* k_factor = 32.0
KFactor == 32

\* home_advantage = 65.0, in hundredths of a point
HomeAdvantage == 6500

\* regression_factor 0.03 per 30 days is one thousandth per day, capped at 0.15
MaxRegressionPermille == 150

RegressionAfterDays == 30

\* recent_results keeps the last 10 results
RecentResultsKept == 10

ExpectedScale == 100000

MaxEloCalls == 2

EloTeams == {50, 7}

EloLeagues == {39, 999}

\* match_importance in tenths: the default 1.0, which the rating job uses
DefaultImportance == 10

\* match_importance of a direct call: the docstring's playoff value 1.5
MatchImportances == {15}

\* <<actual_score in halves, goal_diff>> of the team being updated
MatchOutcomes == {<<2, 1>>, <<1, 0>>, <<0, -2>>}

\* <<home_score, away_score>> of a finished fixture
FixtureScores == {<<1, 0>>, <<1, 1>>, <<0, 3>>}

ClockDays == {0, 31, 200}

EmptyDict == [k \in {} |-> 0]

\* The ratings the job loads from team_elo before it processes fixtures
EloPreloads == {EmptyDict, (50 :> 199800), (7 :> 120200)}

DictSet(d, k, v) == [x \in DOMAIN d \cup {k} |-> IF x = k THEN v ELSE d[x]]

\* a / b to the nearest integer, halves away from zero
RoundDiv(a, b) ==
    IF a >= 0 THEN (a + b \div 2) \div b ELSE -((b \div 2 - a) \div b)

\* 100000 / (1 + 10 ** (-d / 400)) for d = 0, 10, ..., 890 points
LogisticTable ==
    << 50000, 51439, 52875, 54307, 55731, 57146, 58550, 59940, 61314, 62670,
       64006, 65322, 66614, 67882, 69124, 70339, 71525, 72683, 73811, 74908,
       75975, 77010, 78013, 78984, 79924, 80832, 81708, 82553, 83366, 84149,
       84902, 85625, 86319, 86985, 87623, 88234, 88818, 89377, 89912, 90422,
       90909, 91374, 91817, 92239, 92641, 93024, 93389, 93735, 94065, 94378,
       94676, 94959, 95227, 95482, 95724, 95954, 96171, 96378, 96573, 96759,
       96935, 97101, 97259, 97408, 97550, 97684, 97810, 97930, 98044, 98151,
       98253, 98349, 98440, 98526, 98607, 98684, 98757, 98825, 98890, 98952,
       99010, 99065, 99117, 99166, 99212, 99256, 99297, 99336, 99373, 99408 >>

\* 1.0 / (1.0 + 10 ** (-diff / 400)): the table, interpolated between entries
Logistic(diff) ==
    LET a   == Abs(diff)
        idx == Min(a \div 1000 + 1, Len(LogisticTable))
        nxt == Min(idx + 1, Len(LogisticTable))
        v   == LogisticTable[idx]
                 + RoundDiv((LogisticTable[nxt] - LogisticTable[idx]) * (a % 1000), 1000)
    IN  IF diff >= 0 THEN v ELSE ExpectedScale - v

\* expected_score(rating_a, rating_b, home_advantage)
ExpectedScore(rating_a, rating_b, home_advantage) ==
    Logistic(rating_a - rating_b + (IF home_advantage THEN HomeAdvantage ELSE 0))

\* math.log(abs(goal_diff) + 1) + 1 if goal_diff != 0 else 1.0, in thousandths
MovMultiplier(goal_diff) ==
    CASE Abs(goal_diff) = 0 -> 1000
      [] Abs(goal_diff) = 1 -> 1693
      [] Abs(goal_diff) = 2 -> 2099
      [] Abs(goal_diff) = 3 -> 2386
      [] Abs(goal_diff) = 4 -> 2609
      [] OTHER -> 2792

\* k = self.k_factor * match_importance * mov_multiplier, in hundredths
AdjustedK(match_importance, goal_diff) ==
    RoundDiv(KFactor * match_importance * MovMultiplier(goal_diff), 100)

\* k * (actual_score - expected), in hundredths of a point
RatingChange(k, actual_score, expected) ==
    RoundDiv(k * (actual_score * (ExpectedScale \div 2) - expected), ExpectedScale)

\* faulty variant: the rating is stored as computed
Unclipped(r) == r

\* max(1200, min(2000, r))
Clip(r) == Max(MinRating, Min(MaxRating, r))

\* base_rating + bonus of get_rating
InitialRating(team_id, league_id) ==
    100 * (DictGet(DEFAULT_RATINGS, league_id, DefaultLeagueRating)
             + DictGet(TOP_TEAM_BONUSES, team_id, 0))

\* The attributes of one EloRatingSystem
EloState ==
    [ratings |-> ratings, home_ratings |-> home_ratings,
     away_ratings |-> away_ratings, h2h_ratings |-> h2h_ratings,
     recent_results |-> recent_results, last_updated |-> last_updated]

\* get_rating: the system after the call
GetRating(s, team_id, league_id, today) ==
    IF team_id \in DOMAIN s.ratings THEN s
    ELSE LET rating == InitialRating(team_id, league_id) IN
         [s EXCEPT !.ratings = DictSet(@, team_id, rating),
                   !.home_ratings = DictSet(@, team_id, rating),
                   !.away_ratings = DictSet(@, team_id, rating),
                   !.recent_results = DictSet(@, team_id, <<>>),
                   !.last_updated = DictSet(@, team_id, today)]

\* self.recent_results[team_id][-10:]
LastResults(results) ==
    IF Len(results) > RecentResultsKept
    THEN SubSeq(results, Len(results) - RecentResultsKept + 1, Len(results))
    ELSE results

\* update_rating: the system after the call
UpdateRating(s, team_id, opponent_id, actual_score, goal_diff, is_home, match_importance, league_id, today) ==
    LET s2 == GetRating(GetRating(s, team_id, league_id, today),
                        opponent_id, league_id, today)
        team_rating     == s2.ratings[team_id]
        opponent_rating == s2.ratings[opponent_id]
        expected == ExpectedScore(team_rating, opponent_rating, is_home)
        k        == AdjustedK(match_importance, goal_diff)
        change   == RatingChange(k, actual_score, expected)
        h2h_key  == <<team_id, opponent_id>>
        old_h2h  == DictGet(s2.h2h_ratings, h2h_key, team_rating)
        results  == DictGet(s2.recent_results, team_id, <<>>)
    IN  [s2 EXCEPT
           !.ratings = DictSet(@, team_id, Clip(team_rating + change)),
           !.home_ratings =
               IF is_home
               THEN DictSet(@, team_id, Clip(DictGet(@, team_id, team_rating) + change))
               ELSE @,
           !.away_ratings =
               IF is_home THEN @
               ELSE DictSet(@, team_id, Clip(DictGet(@, team_id, team_rating) + change)),
           !.h2h_ratings = DictSet(@, h2h_key, Clip(old_h2h + RoundDiv(3 * change, 2))),
           !.recent_results =
               DictSet(@, team_id, LastResults(Append(results, <<actual_score, today>>))),
           !.last_updated = DictSet(@, team_id, today)]

\* apply_time_regression: the system after the call
ApplyTimeRegression(s, team_id, league_id, today) ==
    IF team_id \notin DOMAIN s.last_updated THEN s
    ELSE LET days_since_update == today - s.last_updated[team_id]
             league_mean == 100 * DictGet(DEFAULT_RATINGS, league_id, DefaultLeagueRating)
             current     == s.ratings[team_id]
             regression  == Min(days_since_update, MaxRegressionPermille)
         IN  IF days_since_update > RegressionAfterDays
             THEN [s EXCEPT !.ratings =
                      DictSet(@, team_id,
                              current + RoundDiv((league_mean - current) * regression, 1000))]
             ELSE s

\* The two history records the rating job appends for one fixture
HistoryRecords(home_id, away_id, home_before, away_before, home_after, away_after) ==
    << [team_id |-> home_id, rating_before |-> home_before,
        rating_after |-> home_after, rating_change |-> home_after - home_before,
        opponent_id |-> away_id, opponent_rating |-> away_before, was_home |-> TRUE],
       [team_id |-> away_id, rating_before |-> away_before,
        rating_after |-> away_after, rating_change |-> away_after - away_before,
        opponent_id |-> home_id, opponent_rating |-> home_before, was_home |-> FALSE] >>

\* home_actual, away_actual of the rating job, in halves
ActualScores(home_score, away_score) ==
    IF home_score > away_score THEN <<2, 0>>
    ELSE IF home_score < away_score THEN <<0, 2>>
    ELSE <<1, 1>>

SetEloState(s) ==
    /\ ratings' = s.ratings
    /\ home_ratings' = s.home_ratings
    /\ away_ratings' = s.away_ratings
    /\ h2h_ratings' = s.h2h_ratings
    /\ recent_results' = s.recent_results
    /\ last_updated' = s.last_updated

\* A fresh EloRatingSystem
EloFresh ==
    /\ home_ratings = EmptyDict
    /\ away_ratings = EmptyDict
    /\ h2h_ratings = EmptyDict
    /\ recent_results = EmptyDict
    /\ last_updated = EmptyDict
    /\ now = 0
    /\ elo_calls = 0
    /\ history_records = <<>>

\* EloRatingSystem(), or the rating job's system with the stored ratings loaded
EloInit == EloFresh /\ ratings \in EloPreloads

EloIdle == EloFresh /\ ratings = EmptyDict

GetRatingCall ==
    /\ elo_calls < MaxEloCalls
    /\ \E team_id \in EloTeams, league_id \in EloLeagues :
          SetEloState(GetRating(EloState, team_id, league_id, now))
    /\ elo_calls' = elo_calls + 1
    /\ UNCHANGED <<now, history_records>>
    /\ UNCHANGED notEloVars

UpdateRatingCall ==
    /\ elo_calls < MaxEloCalls
    /\ \E team_id \in EloTeams, opponent_id \in EloTeams, outcome \in MatchOutcomes,
          is_home \in BOOLEAN, match_importance \in MatchImportances,
          league_id \in EloLeagues :
          /\ team_id # opponent_id
          /\ SetEloState(UpdateRating(EloState, team_id, opponent_id, outcome[1],
                                      outcome[2], is_home, match_importance,
                                      league_id, now))
    /\ elo_calls' = elo_calls + 1
    /\ UNCHANGED <<now, history_records>>
    /\ UNCHANGED notEloVars

ApplyTimeRegressionCall ==
    /\ elo_calls < MaxEloCalls
    /\ \E team_id \in EloTeams, league_id \in EloLeagues :
          SetEloState(ApplyTimeRegression(EloState, team_id, league_id, now))
    /\ elo_calls' = elo_calls + 1
    /\ UNCHANGED <<now, history_records>>
    /\ UNCHANGED notEloVars

\* One iteration of the rating job's loop over finished fixtures: the home
\* team's update, then the away team's, then the history records
ProcessFixture ==
    /\ elo_calls < MaxEloCalls
    /\ \E home_id \in EloTeams, away_id \in EloTeams, score \in FixtureScores,
          league_id \in EloLeagues :
          /\ home_id # away_id
          /\ LET s0 == GetRating(GetRating(EloState, home_id, league_id, now),
                                 away_id, league_id, now)
                 actual == ActualScores(score[1], score[2])
                 s1 == UpdateRating(s0, home_id, away_id, actual[1],
                                    score[1] - score[2], TRUE, DefaultImportance,
                                    league_id, now)
                 s2 == UpdateRating(s1, away_id, home_id, actual[2],
                                    score[2] - score[1], FALSE, DefaultImportance,
                                    league_id, now)
             IN  /\ SetEloState(s2)
                 /\ history_records' = history_records \o
                        HistoryRecords(home_id, away_id,
                                       s0.ratings[home_id], s0.ratings[away_id],
                                       s1.ratings[home_id], s2.ratings[away_id])
    /\ elo_calls' = elo_calls + 1
    /\ UNCHANGED now
    /\ UNCHANGED notEloVars

\* Time passes between calls
AdvanceClock ==
    /\ \E day \in ClockDays : day > now /\ now' = day
    /\ UNCHANGED <<ratings, home_ratings, away_ratings, h2h_ratings,
                   recent_results, last_updated, elo_calls, history_records>>
    /\ UNCHANGED notEloVars

(***************************************************************************)
(* The Elo rating jobs.  A kickoff_time is the ISO string the store        *)
(* returns, kept as its sequence of digits (year, month, day, hour).       *)
(***************************************************************************)
MaxJobFixtures == 3

MaxJobRuns == 2

\* home_score / away_score is None
NoScore == -1

\* The decimal digits of n, zero-padded to the given width
RECURSIVE Digits(_, _)
Digits(n, width) ==
    IF width = 0 THEN <<>> ELSE Append(Digits(n \div 10, width - 1), n % 10)

\* The value of a sequence of decimal digits
RECURSIVE DigitsValue(_)
DigitsValue(ds) ==
    IF ds = <<>> THEN 0
    ELSE 10 * DigitsValue(SubSeq(ds, 1, Len(ds) - 1)) + ds[Len(ds)]

\* The kickoff_time string "YYYY-MM-DDTHH:00:00+00:00"
IsoString(year, month, day, hour) ==
    Digits(year, 4) \o Digits(month, 2) \o Digits(day, 2) \o Digits(hour, 2)

\* The instant an ISO string denotes, in hours
Instant(iso) ==
    ((DigitsValue(SubSeq(iso, 1, 4)) * 12 + (DigitsValue(SubSeq(iso, 5, 6)) - 1)) * 31
        + (DigitsValue(SubSeq(iso, 7, 8)) - 1)) * 24
    + DigitsValue(SubSeq(iso, 9, 10))

\* Python's str <: character by character, a proper prefix first
RECURSIVE StrLt(_, _)
StrLt(a, b) ==
    IF b = <<>> THEN FALSE
    ELSE IF a = <<>> THEN TRUE
    ELSE IF Head(a) # Head(b) THEN Head(a) < Head(b)
    ELSE StrLt(Tail(a), Tail(b))

\* The finished fixtures the store can hold
FinishedFixtures ==
    { [id |-> 1, kickoff_time |-> IsoString(2023, 12, 31, 20), home_team_id |-> 50,
       away_team_id |-> 7, home_score |-> 1, away_score |-> 0, league_id |-> 39],
      [id |-> 2, kickoff_time |-> IsoString(2024, 1, 5, 9), home_team_id |-> 7,
       away_team_id |-> 50, home_score |-> 1, away_score |-> 1, league_id |-> 39],
      [id |-> 3, kickoff_time |-> IsoString(2024, 1, 5, 15), home_team_id |-> 50,
       away_team_id |-> 7, home_score |-> NoScore, away_score |-> NoScore,
       league_id |-> 39],
      [id |-> 4, kickoff_time |-> IsoString(2024, 1, 5, 9), home_team_id |-> 50,
       away_team_id |-> 7, home_score |-> 0, away_score |-> 3, league_id |-> 999] }

\* What get_finished_fixtures can return to a job: some of the finished
\* fixtures, each once, in any order
ReturnedFixtureLists ==
    UNION { { fs \in [1..n -> FinishedFixtures] :
                \A i, j \in 1..n : i # j => fs[i] # fs[j] } : n \in 0..MaxJobFixtures }

\* What a run fetches: the store keeps its finished fixtures from one run of a
\* behaviour to the next and returns them in any order
FetchedFixtureLists(earlier_runs, previous) ==
    IF earlier_runs = 0 THEN ReturnedFixtureLists
    ELSE { fs \in ReturnedFixtureLists :
             /\ Len(fs) = Len(previous)
             /\ {fs[i] : i \in 1..Len(fs)} = {previous[i] : i \in 1..Len(previous)} }

\* faulty variant: the list is processed in the order the store returned it
StoreOrder(fixtures) == fixtures

RECURSIVE InsertByKickoff(_, _)
InsertByKickoff(sorted, f) ==
    IF sorted = <<>> THEN <<f>>
    ELSE IF StrLt(f.kickoff_time, Head(sorted).kickoff_time) THEN <<f>> \o sorted
    ELSE <<Head(sorted)>> \o InsertByKickoff(Tail(sorted), f)

RECURSIVE SortFrom(_, _)
SortFrom(fixtures, sorted) ==
    IF fixtures = <<>> THEN sorted
    ELSE SortFrom(Tail(fixtures), InsertByKickoff(sorted, Head(fixtures)))

\* all_fixtures.sort(key=lambda x: x.get("kickoff_time", "")), a stable sort
SortByKickoff(fixtures) == SortFrom(fixtures, <<>>)

\* EloRatingSystem(k_factor=32.0, home_advantage=65.0) with the given ratings
NewEloSystem(loaded) ==
    /\ ratings' = loaded
    /\ home_ratings' = EmptyDict
    /\ away_ratings' = EmptyDict
    /\ h2h_ratings' = EmptyDict
    /\ recent_results' = EmptyDict
    /\ last_updated' = EmptyDict
    /\ history_records' = <<>>

JobInit ==
    /\ team_elo \in EloPreloads
    /\ job_pc = "idle"
    /\ job_kind = "none"
    /\ job_returned = <<>>
    /\ all_fixtures = <<>>
    /\ job_index = 1
    /\ job_applied = <<>>
    /\ job_teams = {}
    /\ job_runs = 0
    /\ job_first = [made |-> FALSE]

JobIdle == JobInit /\ team_elo = EmptyDict

\* calculate_elo_ratings up to its loop: load the stored ratings, fetch the
\* finished fixtures, return a warning if there are none, sort
StartCalculateElo ==
    /\ job_pc # "running"
    /\ job_runs < MaxJobRuns
    /\ \E fixtures \in FetchedFixtureLists(job_runs, job_returned) :
          /\ job_returned' = fixtures
          /\ all_fixtures' = IF fixtures = <<>> THEN <<>> ELSE SortByKickoff(fixtures)
          /\ job_pc' = IF fixtures = <<>> THEN "warning" ELSE "running"
    /\ NewEloSystem(team_elo)
    /\ job_kind' = "calculate"
    /\ job_index' = 1
    /\ job_applied' = <<>>
    /\ job_teams' = {}
    /\ job_runs' = job_runs + 1
    /\ UNCHANGED <<team_elo, job_first, now, elo_calls>>
    /\ UNCHANGED notJobVars

\* _recalculate_all_elo up to its loop: a fresh system, fetch, sort
StartRecalculateAllElo ==
    /\ job_pc # "running"
    /\ job_runs < MaxJobRuns
    /\ \E fixtures \in FetchedFixtureLists(job_runs, job_returned) :
          /\ job_returned' = fixtures
          /\ all_fixtures' = SortByKickoff(fixtures)
    /\ NewEloSystem(EmptyDict)
    /\ job_pc' = "running"
    /\ job_kind' = "recalculate"
    /\ job_index' = 1
    /\ job_applied' = <<>>
    /\ job_teams' = {}
    /\ job_runs' = job_runs + 1
    /\ UNCHANGED <<team_elo, job_first, now, elo_calls>>
    /\ UNCHANGED notJobVars

\* One iteration of `for fixture in all_fixtures` of either job
JobProcessFixture ==
    /\ job_pc = "running"
    /\ job_index <= Len(all_fixtures)
    /\ LET fixture == all_fixtures[job_index]
           home_id == fixture.home_team_id
           away_id == fixture.away_team_id
           league_id == fixture.league_id
           s0 == IF job_kind = "calculate"
                 THEN GetRating(GetRating(EloState, home_id, league_id, now),
                                away_id, league_id, now)
                 ELSE EloState
           actual == ActualScores(fixture.home_score, fixture.away_score)
           s1 == UpdateRating(s0, home_id, away_id, actual[1],
                              fixture.home_score - fixture.away_score, TRUE,
                              DefaultImportance, league_id, now)
           s2 == UpdateRating(s1, away_id, home_id, actual[2],
                              fixture.away_score - fixture.home_score, FALSE,
                              DefaultImportance, league_id, now)
       IN  IF fixture.home_score = NoScore \/ fixture.away_score = NoScore
           THEN UNCHANGED <<ratings, home_ratings, away_ratings, h2h_ratings,
                            recent_results, last_updated, history_records,
                            job_applied, job_teams>>
           ELSE /\ SetEloState(s2)
                /\ history_records' =
                       IF job_kind = "calculate"
                       THEN history_records \o
                            HistoryRecords(home_id, away_id,
                                           s0.ratings[home_id], s0.ratings[away_id],
                                           s1.ratings[home_id], s2.ratings[away_id])
                       ELSE history_records
                /\ job_applied' = Append(job_applied, fixture)
                /\ job_teams' = job_teams \cup {home_id, away_id}
    /\ job_index' = job_index + 1
    /\ UNCHANGED <<team_elo, job_pc, job_kind, job_returned, all_fixtures, job_runs,
                   job_first, now, elo_calls>>
    /\ UNCHANGED notJobVars

\* After the loop: bulk_upsert_team_elos of round(elo.ratings[team], 2) for
\* the teams of team_stats
JobSaveRatings ==
    /\ job_pc = "running"
    /\ job_index > Len(all_fixtures)
    /\ team_elo' = [t \in DOMAIN team_elo \cup job_teams |->
                       IF t \in job_teams THEN ratings[t] ELSE team_elo[t]]
    /\ job_pc' = "done"
    /\ job_first' = IF job_first.made THEN job_first
                    ELSE [made |-> TRUE, kind |-> job_kind,
                          fixtures |-> {job_returned[i] : i \in 1..Len(job_returned)},
                          team_elo |-> team_elo']
    /\ UNCHANGED <<job_kind, job_returned, all_fixtures, job_index, job_applied,
                   job_teams, job_runs>>
    /\ UNCHANGED eloVars
    /\ UNCHANGED notJobVars

(***************************************************************************)
(* DixonColesModel.fit.  Strengths, home advantage, rho and logarithms in  *)
(* 1e-4; goals, expected goals and time weights in thousandths.            *)
(***************************************************************************)
MaxFitCalls == 1

\* len(valid_fixtures) < 20
MinFitFixtures == 20

\* for iteration in range(15)
FitIterations == 15

\* max(-1.5, min(1.5, .)), in 1e-4
ParamBound == 15000

\* max_change < 0.001, in 1e-4
ConvergedBelow == 10

\* len(low_score_matches) > 100
MinLowScoreMatches == 100

\* rho = -0.13 and home_advantage = 0.27 of the constructor, in 1e-4
DefaultRho == -1300

DefaultDcHomeAdvantage == 2700

\* time_decay_rate = 0.0065 per day, in 1e-4
TimeDecayRate == 65

\* exp(d / 10) for d = 0..9, in 1e-4
ExpTenths ==
    <<10000, 11052, 12214, 13499, 14918, 16487, 18221, 20138, 22255, 24596>>

\* exp(n) for n = 0..9, in thousandths
ExpIntegers ==
    <<1000, 2718, 7389, 20086, 54598, 148413, 403429, 1096633, 2980958, 8103084>>

\* ln 2, in 1e-4
Ln2 == 6931

\* math.exp(x / 10000), in thousandths, for x in [-90000, 50000): the integer
\* part and the tenths of x from the tables, the rest from the power series
ExpMilli(x) ==
    LET n == x \div 10000
        r == x % 10000
        s == r % 1000
        b == 10000 + s + RoundDiv(s * s, 20000) + RoundDiv(s * s * s, 600000000)
        c == RoundDiv(ExpTenths[(r \div 1000) + 1] * b, 10000)
    IN  IF n >= 0 THEN RoundDiv(c * ExpIntegers[n + 1], 10000)
        ELSE RoundDiv(c * 100, ExpIntegers[1 - n])

\* ln(num / den) in 1e-4 for den <= num < 2 den: 2 atanh((num-den)/(num+den))
LnSeries(num, den) ==
    LET z  == RoundDiv((num - den) * 10000, num + den)
        z2 == RoundDiv(z * z, 10000)
        z3 == RoundDiv(z2 * z, 10000)
        z5 == RoundDiv(z3 * z2, 10000)
        z7 == RoundDiv(z5 * z2, 10000)
    IN  2 * (z + RoundDiv(z3, 3) + RoundDiv(z5, 5) + RoundDiv(z7, 7))

RECURSIVE LnNormalized(_, _, _)
LnNormalized(num, den, k) ==
    IF num >= 2 * den THEN LnNormalized(num, 2 * den, k + 1)
    ELSE IF num < den THEN LnNormalized(2 * num, den, k - 1)
    ELSE k * Ln2 + LnSeries(num, den)

RECURSIVE LnReduced(_, _, _)
LnReduced(num, den, k) ==
    IF num > 100000 THEN LnReduced(RoundDiv(num, 2), den, k + 1)
    ELSE IF den > 100000 THEN LnReduced(num, RoundDiv(den, 2), k - 1)
    ELSE LnNormalized(num, den, k)

\* math.log(num / den), in 1e-4, for num > 0 and den > 0
Ln(num, den) == LnReduced(num, den, 0)

\* sum(s), adding the two halves of s
RECURSIVE SeqSum(_)
SeqSum(s) ==
    IF Len(s) = 0 THEN 0
    ELSE IF Len(s) = 1 THEN s[1]
    ELSE SeqSum(SubSeq(s, 1, Len(s) \div 2)) + SeqSum(SubSeq(s, (Len(s) \div 2) + 1, Len(s)))

\* [f for f in fixtures if f['id'] in keep]
SelectFixtures(fixtures, keep) == SelectSeq(fixtures, LAMBDA f : f.id \in keep)

\* datetime.utcnow() of the fit
FitDate == IsoString(2024, 1, 31, 12)

\* time_weight: exp(-xi * days_ago), days_ago = max(0, (now - kickoff).days)
TimeWeight(kickoff_time) ==
    ExpMilli(-(TimeDecayRate * Max(0, (Instant(FitDate) - Instant(kickoff_time)) \div 24)))

\* The five teams of the leagues below
LeagueTeams == <<1, 2, 3, 4, 5>>

\* <<home_score, away_score>> of home team h against away team a in a league
\* of the named kind
LeagueScore(kind, h, a) ==
    CASE kind = "dominant" ->
             IF h = 1 \/ a = 2 THEN <<2, 0>>
             ELSE IF a = 1 \/ h = 2 THEN <<0, 2>> ELSE <<1, 1>>
      [] kind = "scorer" -> <<IF h = 1 THEN 9 ELSE 1, IF a = 1 THEN 9 ELSE 1>>
      [] OTHER -> <<((h + 2 * a) % 3) + 1, (2 * h + a) % 3>>

\* A league in which every team hosts every other team `rounds` times; in a
\* "short" league the last fixture has no score yet, and in an "aged" league
\* the odd fixtures were played 30 days before the fit
League(kind, rounds) ==
    [i \in 1..(20 * rounds) |->
        LET p == (i - 1) % 20
            h == (p \div 4) + 1
            k == (p % 4) + 1
            a == IF k < h THEN k ELSE k + 1
            score == LeagueScore(kind, LeagueTeams[h], LeagueTeams[a])
            unscored == kind = "short" /\ i = 20 * rounds
        IN  [id |-> i,
             kickoff_time |-> IF kind = "aged" /\ i % 2 = 1
                              THEN IsoString(2024, 1, 1, 12)
                              ELSE IsoString(2024, 1, 31, 12),
             home_team_id |-> LeagueTeams[h], away_team_id |-> LeagueTeams[a],
             home_score |-> IF unscored THEN NoScore ELSE score[1],
             away_score |-> IF unscored THEN NoScore ELSE score[2]]]

\* The fixture lists a fit call is given
FitFixtureLists ==
    {League("balanced", 1), League("aged", 1), League("short", 1),
     League("scorer", 1), League("dominant", 2)}

\* min_matches: the default of fit and the default of the fit_dixon_coles job
FitMinMatches == {5, 10}

NoFitCall ==
    [pc |-> "idle", error |-> "none", fixtures |-> <<>>, min_matches |-> 0,
     valid_fixtures |-> <<>>, teams |-> {}, weights |-> EmptyDict, avg_goals |-> 0,
     attack |-> EmptyDict, defense |-> EmptyDict, iteration |-> 0,
     max_change |-> 0, before |-> EmptyDict]

\* The fitted parameters of the model
FittedParameters ==
    [rho |-> rho, home_advantage |-> dc_home_advantage,
     attack_params |-> attack_params, defense_params |-> defense_params,
     is_fitted |-> is_fitted]

NoCache ==
    [exists |-> FALSE, rho |-> 0, home_advantage |-> 0, attack_params |-> EmptyDict,
     defense_params |-> EmptyDict, team_names |-> {}]

\* A cache file left by an earlier fit
EarlierCache ==
    [exists |-> TRUE, rho |-> -1300, home_advantage |-> 3030,
     attack_params |-> (1 :> 50) @@ (2 :> -1203) @@ (3 :> 2308) @@ (4 :> 50)
                           @@ (5 :> -1203),
     defense_params |-> (1 :> -1793) @@ (2 :> -540) @@ (3 :> 1718) @@ (4 :> -1793)
                           @@ (5 :> -540),
     team_names |-> {1, 2, 3, 4, 5}]

\* DixonColesModel(): the defaults, then _load_from_cache
DixonColesInit ==
    /\ dc_cache \in {NoCache, EarlierCache}
    /\ rho = IF dc_cache.exists THEN dc_cache.rho ELSE DefaultRho
    /\ dc_home_advantage =
           IF dc_cache.exists THEN dc_cache.home_advantage ELSE DefaultDcHomeAdvantage
    /\ attack_params = IF dc_cache.exists THEN dc_cache.attack_params ELSE EmptyDict
    /\ defense_params = IF dc_cache.exists THEN dc_cache.defense_params ELSE EmptyDict
    /\ team_names = IF dc_cache.exists THEN dc_cache.team_names ELSE {}
    /\ is_fitted = dc_cache.exists
    /\ fit_call = NoFitCall
    /\ fit_calls = 0

DixonColesIdle == DixonColesInit /\ dc_cache = NoCache

\* valid_fixtures: the fixtures with both scores
ScoredFixtures(fixtures) ==
    SelectFixtures(fixtures, {fixtures[i].id : i \in
        {j \in 1..Len(fixtures) : fixtures[j].home_score # NoScore
                                    /\ fixtures[j].away_score # NoScore}})

\* faulty variant: the fit goes on whatever the number of fixtures
NeverTooFew(valid_fixtures) == FALSE

\* len(valid_fixtures) < 20
TooFewFixtures(valid_fixtures) == Len(valid_fixtures) < MinFitFixtures

TeamsOf(fixtures) ==
    {fixtures[i].home_team_id : i \in 1..Len(fixtures)}
        \cup {fixtures[i].away_team_id : i \in 1..Len(fixtures)}

\* team_match_count[t]
TeamMatchCount(fixtures, t) ==
    Cardinality({i \in 1..Len(fixtures) :
                    fixtures[i].home_team_id = t \/ fixtures[i].away_team_id = t})

\* valid_teams
ValidTeams(fixtures, min_matches) ==
    {t \in TeamsOf(fixtures) : TeamMatchCount(fixtures, t) >= min_matches}

\* The fixtures between two valid teams
BetweenValidTeams(fixtures, valid_teams) ==
    SelectFixtures(fixtures, {fixtures[i].id : i \in
        {j \in 1..Len(fixtures) : fixtures[j].home_team_id \in valid_teams
                                    /\ fixtures[j].away_team_id \in valid_teams}})

\* One pass of the loop body of fit over the locals c of the call: the
\* accumulators, then the damped and clipped update, then the shift of the
\* attack strengths by their mean.  error is set where math.log is given 0.
FitIteration(c) ==
    LET valid == c.valid_fixtures
        idx == 1..Len(valid)
        exp_home == [i \in idx |-> RoundDiv(c.avg_goals * ExpMilli(
                        dc_home_advantage + c.attack[valid[i].home_team_id]
                            + c.defense[valid[i].away_team_id]), 1000)]
        exp_away == [i \in idx |-> RoundDiv(c.avg_goals * ExpMilli(
                        c.attack[valid[i].away_team_id]
                            + c.defense[valid[i].home_team_id] - dc_home_advantage), 1000)]
        w == [i \in idx |-> c.weights[valid[i].id]]
        Accumulate(t, at_home, away) ==
            SeqSum([i \in idx |-> IF valid[i].home_team_id = t THEN at_home[i]
                                  ELSE IF valid[i].away_team_id = t THEN away[i]
                                  ELSE 0])
        home_goals == [i \in idx |-> w[i] * valid[i].home_score]
        away_goals == [i \in idx |-> w[i] * valid[i].away_score]
        home_expected == [i \in idx |-> RoundDiv(w[i] * exp_home[i], 1000)]
        away_expected == [i \in idx |-> RoundDiv(w[i] * exp_away[i], 1000)]
        goals_scored == [t \in c.teams |-> Accumulate(t, home_goals, away_goals)]
        goals_conceded == [t \in c.teams |-> Accumulate(t, away_goals, home_goals)]
        expected_scored == [t \in c.teams |-> Accumulate(t, home_expected, away_expected)]
        expected_conceded == [t \in c.teams |-> Accumulate(t, away_expected, home_expected)]
        team_weights == [t \in c.teams |-> Accumulate(t, w, w)]
        updated == {t \in c.teams : team_weights[t] > 0}
        att_adjust == [t \in updated |->
            IF expected_scored[t] > 0 /\ goals_scored[t] > 0
            THEN Ln(goals_scored[t], expected_scored[t]) ELSE 0]
        def_adjust == [t \in updated |->
            IF expected_conceded[t] > 0 /\ goals_conceded[t] > 0
            THEN Ln(goals_conceded[t], expected_conceded[t]) ELSE 0]
        new_attack == [t \in c.teams |->
            IF t \in updated
            THEN Max(-ParamBound, Min(ParamBound, c.attack[t] + RoundDiv(att_adjust[t], 2)))
            ELSE c.attack[t]]
        new_defense == [t \in c.teams |->
            IF t \in updated
            THEN Max(-ParamBound, Min(ParamBound, c.defense[t] + RoundDiv(def_adjust[t], 2)))
            ELSE c.defense[t]]
        changes == {Abs(new_attack[t] - c.attack[t]) : t \in c.teams}
                       \cup {Abs(new_defense[t] - c.defense[t]) : t \in c.teams}
        mean_attack == RoundDiv(SeqSum([i \in 1..Cardinality(c.teams) |->
                           new_attack[CHOOSE t \in c.teams :
                               Cardinality({u \in c.teams : u < t}) = i - 1]]),
                           Cardinality(c.teams))
    IN  [error |-> \E t \in updated :
                      \/ expected_scored[t] > 0 /\ goals_scored[t] = 0
                      \/ expected_conceded[t] > 0 /\ goals_conceded[t] = 0,
         attack |-> [t \in c.teams |-> new_attack[t] - mean_attack],
         defense |-> new_defense,
         max_change |-> CHOOSE m \in changes \cup {0} : \A x \in changes : x <= m]

\* min(0, -0.05 * (draw_ratio - 1)), then max(-0.3, .), in 1e-4
RhoFromLowScores(low) ==
    LET Count(h, a) == Cardinality({i \in 1..Len(low) :
                           low[i].home_score = h /\ low[i].away_score = a})
        draws == Count(0, 0) + Count(1, 1)
        wins == Max(1, Count(1, 0) + Count(0, 1))
    IN  Max(-3000, Min(0, RoundDiv(-500 * (draws - wins), wins)))

\* low_score_matches
LowScoreMatches(fixtures) ==
    SelectFixtures(fixtures, {fixtures[i].id : i \in
        {j \in 1..Len(fixtures) : fixtures[j].home_score <= 1
                                    /\ fixtures[j].away_score <= 1}})

\* weights[f['id']] = self.time_weight(f['kickoff_time'])
FixtureWeights(fixtures) ==
    [id \in {fixtures[i].id : i \in 1..Len(fixtures)} |->
        TimeWeight(fixtures[CHOOSE i \in 1..Len(fixtures) : fixtures[i].id = id].kickoff_time)]

DixonColesUnchanged ==
    UNCHANGED <<rho, dc_home_advantage, attack_params, defense_params, is_fitted, dc_cache>>

\* fit(fixtures, min_matches), up to the first pass of its loop: the early
\* return, the sort, the team filter, the weights, the league averages and
\* the home advantage
FitCall(fixtures, min_matches) ==
    /\ fit_call.pc \in {"idle", "returned", "raised"}
    /\ fit_calls < MaxFitCalls
    /\ fit_calls' = fit_calls + 1
    /\ \E scored \in {ScoredFixtures(fixtures)},
          call \in {[NoFitCall EXCEPT !.fixtures = fixtures, !.min_matches = min_matches,
                                      !.before = FittedParameters]} :
          IF TooFewFixtures(scored)
          THEN /\ fit_call' = [call EXCEPT !.pc = "returned"]
               /\ UNCHANGED team_names
               /\ DixonColesUnchanged
          ELSE \E sorted \in {SortByKickoff(scored)} :
               \E valid_teams \in {ValidTeams(sorted, min_matches)} :
               \E valid \in {BetweenValidTeams(sorted, valid_teams)} :
               \E weights \in {FixtureWeights(valid)} :
               \E total_home_goals \in {SeqSum([i \in 1..Len(valid) |->
                                           valid[i].home_score * weights[valid[i].id]])},
                  total_away_goals \in {SeqSum([i \in 1..Len(valid) |->
                                           valid[i].away_score * weights[valid[i].id]])},
                  total_weight \in {SeqSum([i \in 1..Len(valid) |-> weights[valid[i].id]])} :
                  /\ team_names' = team_names \cup TeamsOf(sorted)
                  /\ IF total_weight = 0
                     THEN /\ fit_call' = [call EXCEPT !.pc = "raised",
                                                      !.error = "ZeroDivisionError"]
                          /\ DixonColesUnchanged
                     ELSE \E avg_home_goals \in {RoundDiv(total_home_goals * 1000, total_weight)},
                             avg_away_goals \in {RoundDiv(total_away_goals * 1000, total_weight)} :
                          IF avg_away_goals = 0
                          THEN /\ fit_call' = [call EXCEPT !.pc = "raised",
                                                           !.error = "ZeroDivisionError"]
                               /\ DixonColesUnchanged
                          ELSE IF avg_home_goals = 0
                          THEN /\ fit_call' = [call EXCEPT !.pc = "raised",
                                                           !.error = "ValueError"]
                               /\ DixonColesUnchanged
                          ELSE /\ dc_home_advantage' =
                                      RoundDiv(Ln(avg_home_goals, avg_away_goals), 2)
                               /\ fit_call' = [call EXCEPT
                                      !.pc = "iterating", !.valid_fixtures = valid,
                                      !.teams = valid_teams, !.weights = weights,
                                      !.avg_goals = RoundDiv(avg_home_goals + avg_away_goals, 2),
                                      !.attack = [t \in valid_teams |-> 0],
                                      !.defense = [t \in valid_teams |-> 0]]
                               /\ UNCHANGED <<rho, attack_params, defense_params,
                                              is_fitted, dc_cache>>
    /\ UNCHANGED notDixonColesVars

Fit == \E fixtures \in FitFixtureLists, min_matches \in FitMinMatches : FitCall(fixtures, min_matches)

\* One pass of `for iteration in range(15)`
FitIterate ==
    /\ fit_call.pc = "iterating"
    /\ \E r \in {FitIteration(fit_call)} :
           IF r.error
           THEN fit_call' = [fit_call EXCEPT !.pc = "raised", !.error = "ValueError"]
           ELSE fit_call' = [fit_call EXCEPT
                    !.attack = r.attack, !.defense = r.defense,
                    !.max_change = r.max_change,
                    !.iteration = fit_call.iteration + 1,
                    !.pc = IF r.max_change < ConvergedBelow
                                \/ fit_call.iteration + 1 = FitIterations
                           THEN "fitted" ELSE "iterating"]
    /\ UNCHANGED team_names
    /\ UNCHANGED fit_calls
    /\ DixonColesUnchanged
    /\ UNCHANGED notDixonColesVars

\* The end of fit: the parameters are stored, rho is recalculated where more
\* than 100 low-scoring matches were fitted, and _save_to_cache writes the file
FitStore ==
    /\ fit_call.pc = "fitted"
    /\ LET low == LowScoreMatches(fit_call.valid_fixtures)
           new_rho == IF Len(low) > MinLowScoreMatches THEN RhoFromLowScores(low) ELSE rho
       IN  /\ attack_params' = fit_call.attack
           /\ defense_params' = fit_call.defense
           /\ is_fitted' = TRUE
           /\ rho' = new_rho
           /\ dc_cache' = [exists |-> TRUE, rho |-> new_rho,
                           home_advantage |-> dc_home_advantage,
                           attack_params |-> fit_call.attack,
                           defense_params |-> fit_call.defense,
                           team_names |-> team_names]
    /\ fit_call' = [fit_call EXCEPT !.pc = "returned"]
    /\ UNCHANGED <<dc_home_advantage, team_names, fit_calls>>
    /\ UNCHANGED notDixonColesVars

(***************************************************************************)
(* EloRatingSystem.predict_match.  Ratings in hundredths of a point,       *)
(* probabilities before the final rounding in 1e-5, returned probabilities *)
(* in thousandths.                                                         *)
(***************************************************************************)
\* The teams predictions are asked for
PredictTeams == {50, 7, 168}

\* lookback = 5
FormLookback == 5

\* 0.8 ** i for i = 0..4, in 1e-4
FormWeights == <<10000, 8000, 6400, 5120, 4096>>

\* draw_base = 0.26, in 1e-5
DrawBase == 26000

\* 0.12, the largest draw adjustment, in 1e-5
MaxDrawAdjustment == 12000

NoPrediction == [made |-> FALSE, home_win |-> 0, draw |-> 0, away_win |-> 0]

PredictionInit == elo_prediction = NoPrediction

PredictionIdle == PredictionInit

\* faulty variant: every result of the lookback weighs the same
RecentFormAdjustmentUnweighted(s, team_id) ==
    LET all == DictGet(s.recent_results, team_id, <<>>)
        n == Min(Len(all), FormLookback)
    IN  IF n = 0 THEN 0
        ELSE RoundDiv(SeqSum([i \in 1..n |-> all[Len(all) - i + 1][1]]) * 5000, n) - 5000

\* _calculate_recent_form_adjustment, in hundredths of a point
RecentFormAdjustment(s, team_id) ==
    LET all == DictGet(s.recent_results, team_id, <<>>)
        n == Min(Len(all), FormLookback)
        weighted_sum == SeqSum([i \in 1..n |-> all[Len(all) - i + 1][1] * FormWeights[i]])
        total_weight == SeqSum([i \in 1..n |-> FormWeights[i]])
    IN  IF n = 0 THEN 0 ELSE RoundDiv(weighted_sum * 5000, total_weight) - 5000

\* get_contextual_rating on the system s in which team_id has a rating
ContextualRating(s, team_id, is_home, opponent_id) ==
    LET overall == s.ratings[team_id]
        context_rating == IF is_home THEN DictGet(s.home_ratings, team_id, overall)
                          ELSE DictGet(s.away_ratings, team_id, overall)
        recent_adj == RecentFormAdjustment(s, team_id)
        h2h_key == <<team_id, opponent_id>>
        h2h_adj == IF h2h_key \in DOMAIN s.h2h_ratings
                   THEN s.h2h_ratings[h2h_key] - overall ELSE 0
    IN  IF h2h_adj # 0
        THEN RoundDiv(50 * context_rating + 10 * overall + 20 * (overall + recent_adj)
                          + 20 * (overall + h2h_adj), 100)
        ELSE RoundDiv(50 * context_rating + 30 * overall + 20 * (overall + recent_adj), 100)

\* remaining * share, both in 1e-5
ShareOf(remaining, share) ==
    RoundDiv(remaining * (share \div 1000) * 10 + RoundDiv(remaining * (share % 1000), 100),
             1000)

\* The quotients x / total that lie exactly between two thousandths and that
\* binary64 division and round(., 3) take to the upper one
BinaryRoundsUp == {<<34250, 100000>>}

\* The same, for the quotients taken to the lower one
BinaryRoundsDown == {<<32750, 100000>>}

\* round(x / total, 3), in thousandths: the nearest thousandth, and for a
\* quotient exactly between two thousandths the one binary64 gives where that
\* is known, either of the two where it is not
RoundThousandths(x, total) ==
    LET down == (x * 1000) \div total
    IN  IF 2 * ((x * 1000) % total) # total THEN {RoundDiv(x * 1000, total)}
        ELSE IF <<x, total>> \in BinaryRoundsUp THEN {down + 1}
        ELSE IF <<x, total>> \in BinaryRoundsDown THEN {down}
        ELSE {down, down + 1}

\* predict_match with use_contextual=True on the system s in which both teams
\* have a rating: the match_winner triples it can return
PredictMatch(s, home_team_id, away_team_id) ==
    LET home_rating == ContextualRating(s, home_team_id, TRUE, away_team_id)
        away_rating == ContextualRating(s, away_team_id, FALSE, home_team_id)
        home_expected == ExpectedScore(home_rating, away_rating, TRUE)
        rating_diff == Abs(home_rating - away_rating)
        draw_prob == DrawBase + Max(0, MaxDrawAdjustment - rating_diff)
        remaining == ExpectedScale - draw_prob
        home_win == ShareOf(remaining, home_expected)
        away_win == ShareOf(remaining, ExpectedScale - home_expected)
        total == home_win + draw_prob + away_win
    IN  {[made |-> TRUE, home_win |-> h, draw |-> d, away_win |-> a] :
            h \in RoundThousandths(home_win, total),
            d \in RoundThousandths(draw_prob, total),
            a \in RoundThousandths(away_win, total)}

\* predict_match(home_team_id, away_team_id, league_id): get_contextual_rating
\* gives each team its initial rating where it has none
PredictMatchCall ==
    /\ elo_calls < MaxEloCalls
    /\ \E home_team_id \in PredictTeams, away_team_id \in PredictTeams,
          league_id \in EloLeagues :
          /\ home_team_id # away_team_id
          /\ \E s \in {GetRating(GetRating(EloState, home_team_id, league_id, now),
                                 away_team_id, league_id, now)} :
                /\ SetEloState(s)
                /\ elo_prediction' \in PredictMatch(s, home_team_id, away_team_id)
    /\ elo_calls' = elo_calls + 1
    /\ UNCHANGED <<now, history_records>>
    /\ UNCHANGED notPredictionVars

(***************************************************************************)
(* BacktestRunner (run_backtest.py) with the two MatchPredictor instances  *)
(* and the backtesting framework.  Probabilities in 1e-4.                  *)
(***************************************************************************)
\* len(fixtures) < 50: too few fixtures for a run
MinBacktestFixtures == 50

\* get_actual_outcome returned None
NoOutcome == -1

\* 1.0 and 0.0 as get_actual_outcome returns them
Occurred(b) == IF b THEN 1 ELSE 0

\* sub in s, for two Python strings
Contains(s, sub) ==
    \E i \in 1..(Len(s) - Len(sub) + 1) : SubSeq(s, i, i + Len(sub) - 1) = sub

\* The threshold get_actual_outcome extracts from an over/under key, in tenths;
\* 0 when the key names none of the five lines
Threshold(market_key) ==
    CASE Contains(market_key, "0_5") -> 5
      [] Contains(market_key, "1_5") -> 15
      [] Contains(market_key, "2_5") -> 25
      [] Contains(market_key, "3_5") -> 35
      [] Contains(market_key, "4_5") -> 45
      [] OTHER -> 0

\* get_actual_outcome(fixture, market_key, outcome)
GetActualOutcome(fixture, market_key, outcome) ==
    LET home_score == fixture.home_score
        away_score == fixture.away_score
        both_scored == home_score > 0 /\ away_score > 0
        total_goals == home_score + away_score
    IN  IF home_score = NoScore \/ away_score = NoScore THEN NoOutcome
        ELSE IF market_key = "match_winner"
        THEN CASE outcome = "home_win" -> Occurred(home_score > away_score)
               [] outcome = "draw" -> Occurred(home_score = away_score)
               [] outcome = "away_win" -> Occurred(away_score > home_score)
               [] OTHER -> NoOutcome
        ELSE IF market_key = "btts"
        THEN CASE outcome = "yes" -> Occurred(both_scored)
               [] outcome = "no" -> Occurred(~both_scored)
               [] OTHER -> NoOutcome
        ELSE IF Contains(market_key, "over_under")
        THEN IF Threshold(market_key) = 0 THEN NoOutcome
             ELSE CASE outcome = "over" -> Occurred(10 * total_goals > Threshold(market_key))
                    [] outcome = "under" -> Occurred(10 * total_goals < Threshold(market_key))
                    [] OTHER -> NoOutcome
        ELSE NoOutcome

\* The teams of the test fixtures
BacktestTeams == <<42, 7, 168>>

\* <<home_score, away_score>> of the test fixtures: a home win, a draw and an
\* away win
TestScores == << <<2, 1>>, <<1, 1>>, <<0, 2>> >>

\* home_team_id of a fixture dict that has no such key
NoTeam == -1

\* The i-th finished fixture of the test period; the fixture with the id
\* broken is a dict without home_team_id
TestFixture(i, broken) ==
    [id |-> i,
     home_team_id |-> IF i = broken THEN NoTeam ELSE BacktestTeams[(i % 3) + 1],
     away_team_id |-> BacktestTeams[((i + 1) % 3) + 1],
     league_id |-> 39,
     home_score |-> TestScores[(i % 3) + 1][1],
     away_score |-> TestScores[(i % 3) + 1][2]]

TestFixtures(n, broken) == [i \in 1..n |-> TestFixture(i, broken)]

\* What the fixtures query can return: a test period with one fixture that
\* cannot be predicted, and a period with too few fixtures
BacktestFixtureLists ==
    {TestFixtures(MinBacktestFixtures, 3), TestFixtures(MinBacktestFixtures - 1, 0)}

\* The team_elo rows load_elo_from_db finds: none, or a rating for team 7
StoredElos == {EmptyDict, (7 :> 120200)}

\* The market keys and outcomes get_actual_outcome is asked about
OutcomeMarketKeys ==
    {"match_winner", "btts", "both_teams_score", "over_under_1_5", "over_under_2_5",
     "over_under_3_5", "over_under_2.5", "corners_over_under_9_5"}

OutcomeNames == {"home_win", "draw", "away_win", "yes", "no", "over", "under"}

NoOutcomeCall == [made |-> FALSE]

NoPredictions == [made |-> FALSE]

NoReport == [made |-> FALSE]
NoBatchCall == [made |-> FALSE]
NoScoreCall == [made |-> FALSE]

NoTotals == [fixtures |-> {}, count |-> 0, correct |-> 0, squared |-> 0, log |-> 0]

NoResults == [fixtures_tested |-> 0, old_model |-> NoTotals, new_model |-> NoTotals]

BacktestFresh ==
    /\ bt_pc = "idle"
    /\ bt_index = 0
    /\ old_predictions = NoPredictions
    /\ old_db_elo_loaded = FALSE
    /\ new_db_elo_loaded = FALSE
    /\ bt_results = NoResults
    /\ noisy_draws = 0
    /\ last_report = NoReport
    /\ outcome_call = NoOutcomeCall
    /\ db_elo_loaded = FALSE
    /\ batch_call = NoBatchCall
    /\ score_call = NoScoreCall

BacktestInit ==
    /\ bt_fixtures \in BacktestFixtureLists
    /\ team_elo \in StoredElos
    /\ first_report = NoReport
    /\ BacktestFresh

BacktestIdle == BacktestFresh /\ first_report = NoReport /\ bt_fixtures = <<>>

\* A call of get_actual_outcome on one of the fixtures, one for each score
GetActualOutcomeCall ==
    /\ bt_pc = "idle"
    /\ \E i \in 1..Min(Len(TestScores), Len(bt_fixtures)) :
       \E market_key \in OutcomeMarketKeys, outcome \in OutcomeNames :
          outcome_call' = [made |-> TRUE, fixture |-> bt_fixtures[i],
                           market_key |-> market_key, outcome |-> outcome,
                           returned |-> GetActualOutcome(bt_fixtures[i], market_key, outcome)]
    /\ UNCHANGED <<bt_fixtures, bt_pc, bt_index, old_predictions, old_db_elo_loaded,
                   new_db_elo_loaded, bt_results, noisy_draws, first_report, last_report>>
    /\ UNCHANGED <<eloVars, notBacktestVars, batchVars>>

\* _get_league_variance, in hundredths
variance_map == (39 :> 110) @@ (140 :> 90) @@ (78 :> 120) @@ (135 :> 85) @@ (61 :> 80) @@ (2 :> 100) @@ (3 :> 110)

\* random.gauss(0, 0.015 * league_variance): the mean and one standard
\* deviation either side, the deviation cut to whole thousandths
GaussDraws(league_id) ==
    LET sigma == 10 * ((15 * DictGet(variance_map, league_id, 100)) \div 100)
    IN  {-sigma, 0, sigma}

\* The draws away from the mean are bounded, over all runs
MaxNoisyDraws == 1

\* _get_default_features: what get_match_features returns while the statistics
\* cache has no entry for a team; form_diff in hundredths, the rates in 1e-4
DefaultFeatures == [form_diff |-> 0, home_home_win_rate |-> 4500, away_away_win_rate |-> 3000]

\* max(lo, min(hi, x))
Clamp(lo, hi, x) == Max(lo, Min(hi, x))

\* _predict_match_winner: the probabilities it returns, for the draw noise
PredictMatchWinner(elo_pred, features, noise) ==
    LET form_adjustment == Clamp(-1000, 1000, 4 * features.form_diff)
        venue_adjustment ==
            Clamp(-500, 500,
                  RoundDiv(8 * ((features.home_home_win_rate - 4500)
                                  - (features.away_away_win_rate - 3000)), 100))
        total_adjustment == form_adjustment + venue_adjustment
        home1 == Clamp(500, 8500, 10 * elo_pred.home_win + total_adjustment)
        away1 == Clamp(500, 8500, 10 * elo_pred.away_win - RoundDiv(7 * total_adjustment, 10))
        draw1 == Clamp(1000, 4000, 10000 - home1 - away1)
        total == home1 + draw1 + away1
        home2 == RoundDiv(home1 * 10000, total)
        away2 == RoundDiv(away1 * 10000, total)
        home_win == Clamp(500, 9000, home2 + noise)
        away_win == Clamp(500, 9000, away2 - noise)
        draw == 10000 - home_win - away_win
    IN  [home_win |-> 10 * RoundDiv(home_win, 10), draw |-> 10 * RoundDiv(draw, 10),
         away_win |-> 10 * RoundDiv(away_win, 10)]

\* _predict_over_under_goals(1.5, 1.2): P(total > line) for the lines 0.5 to
\* 5.5.  predict_match returns no expected goals, so predict_fixture always
\* passes its defaults home_xg = 1.5 and away_xg = 1.2.
DefaultXgOver ==
    ("over_under_0_5" :> 9146) @@ ("over_under_1_5" :> 7695) @@ ("over_under_2_5" :> 5064)
    @@ ("over_under_3_5" :> 2859) @@ ("over_under_4_5" :> 1371) @@ ("over_under_5_5" :> 567)

\* The predictions predict_fixture returns, market_key -> outcome -> probability.
\* Only the match_winner and goal-line markets are kept: run_backtest looks up
\* no other key that predict_fixture produces.
FixturePredictions(elo_pred, noise) ==
    [made |-> TRUE,
     markets |->
        ("match_winner" :> PredictMatchWinner(elo_pred, DefaultFeatures, noise))
        @@ [k \in DOMAIN DefaultXgOver |->
               [over |-> DefaultXgOver[k], under |-> 10000 - DefaultXgOver[k]]]]

\* load_elo_from_db on the system s: every stored rating replaces the overall
\* rating of its team
LoadEloFromDb(s, loaded) ==
    IF loaded THEN s
    ELSE [s EXCEPT !.ratings = [t \in DOMAIN s.ratings \cup DOMAIN team_elo |->
                                   IF t \in DOMAIN team_elo THEN team_elo[t]
                                   ELSE s.ratings[t]]]

\* _db_elo_loaded after load_elo_from_db
EloLoaded(loaded) == loaded \/ team_elo # EmptyDict

\* faulty variant: the predictor also applies the fixture's result to the home
\* team's ratings
SystemAfterPredictLearning(s, fixture, loaded) ==
    LET s1 == LoadEloFromDb(s, loaded)
    IN  IF fixture.home_team_id = NoTeam THEN s1
        ELSE UpdateRating(s1, fixture.home_team_id, fixture.away_team_id,
                          ActualScores(fixture.home_score, fixture.away_score)[1],
                          fixture.home_score - fixture.away_score, TRUE,
                          DefaultImportance, fixture.league_id, now)

\* The rating system after predict_fixture: load_elo_from_db, then the
\* get_rating calls of predict_match
SystemAfterPredict(s, fixture, loaded) ==
    LET s1 == LoadEloFromDb(s, loaded)
    IN  IF fixture.home_team_id = NoTeam THEN s1
        ELSE GetRating(GetRating(s1, fixture.home_team_id, fixture.league_id, now),
                       fixture.away_team_id, fixture.league_id, now)

\* predict_fixture(fixture, include_all_markets=True) on the system s: what it
\* can return
PredictFixture(s, fixture, loaded, noise) ==
    {FixturePredictions(elo_pred, noise) :
        elo_pred \in PredictMatch(SystemAfterPredict(s, fixture, loaded),
                                  fixture.home_team_id, fixture.away_team_id)}

\* extract_market_probabilities(predictions, market_key)
ExtractMarketProbabilities(fixture_predictions, market_key) ==
    DictGet(fixture_predictions.markets, market_key, EmptyDict)

markets_to_test ==
    << <<"match_winner", "home_win">>, <<"match_winner", "draw">>,
       <<"match_winner", "away_win">>, <<"btts", "yes">>, <<"btts", "no">>,
       <<"over_under_2_5", "over">>, <<"over_under_2_5", "under">>,
       <<"over_under_1_5", "over">>, <<"over_under_1_5", "under">>,
       <<"over_under_3_5", "over">>, <<"over_under_3_5", "under">> >>

\* -log(1e-15), in 1e-4
LogEpsilon == 345388

\* The loss calculate_log_loss takes for one result, in 1e-4
LogLoss(predicted, actual) ==
    LET p == IF actual = 1 THEN predicted ELSE 10000 - predicted
    IN  IF p = 0 THEN LogEpsilon ELSE -Ln(p, 10000)

\* add_prediction_result, on the totals of one model: the number of results,
\* of correct ones, the squared errors in 1e-6 and the log losses in 1e-4
AddPredictionResult(totals, fixture_id, predicted_prob, actual_outcome) ==
    [fixtures |-> totals.fixtures \cup {fixture_id},
     count |-> totals.count + 1,
     correct |-> totals.correct
                  + (IF \/ predicted_prob > 5000 /\ actual_outcome = 1
                        \/ predicted_prob <= 5000 /\ actual_outcome = 0
                     THEN 1 ELSE 0),
     squared |-> totals.squared
                  + RoundDiv((predicted_prob - 10000 * actual_outcome)
                               * (predicted_prob - 10000 * actual_outcome), 100),
     log |-> totals.log + LogLoss(predicted_prob, actual_outcome)]

\* The loop over markets_to_test from its k-th pair on
RECURSIVE RecordMarkets(_, _, _, _, _)
RecordMarkets(all, fixture, old, new, k) ==
    IF k > Len(markets_to_test) THEN all
    ELSE LET market_key == markets_to_test[k][1]
             outcome == markets_to_test[k][2]
             actual == GetActualOutcome(fixture, market_key, outcome)
             old_probs == ExtractMarketProbabilities(old, market_key)
             new_probs == ExtractMarketProbabilities(new, market_key)
         IN  IF actual = NoOutcome \/ old_probs = EmptyDict \/ new_probs = EmptyDict
             THEN RecordMarkets(all, fixture, old, new, k + 1)
             ELSE RecordMarkets(
                    [all EXCEPT
                       !.old_model = AddPredictionResult(@, fixture.id,
                                        DictGet(old_probs, outcome, 3300), actual),
                       !.new_model = AddPredictionResult(@, fixture.id,
                                        DictGet(new_probs, outcome, 3300), actual)],
                    fixture, old, new, k + 1)

\* calculate_accuracy, calculate_brier_score and calculate_log_loss over all
\* markets, each rounded to four decimals as compare_models does
ModelMetrics(totals) ==
    IF totals.count = 0
    THEN [accuracy |-> 0, brier_score |-> 10000, log_loss |-> 100000]
    ELSE [accuracy |-> RoundDiv(10000 * totals.correct, totals.count),
          brier_score |-> RoundDiv(totals.squared, 100 * totals.count),
          log_loss |-> RoundDiv(totals.log, totals.count)]

\* compare_models: the overall metrics of the two models
CompareModels(all) ==
    [made |-> TRUE, old_model |-> ModelMetrics(all.old_model),
     new_model |-> ModelMetrics(all.new_model)]

\* run_backtest up to its loop: too few fixtures end the run with no report
RunBacktest ==
    /\ bt_pc = "idle"
    /\ IF Len(bt_fixtures) < MinBacktestFixtures
       THEN /\ bt_pc' = "returned"
            /\ UNCHANGED <<bt_index, bt_results>>
       ELSE /\ bt_pc' = "old"
            /\ bt_index' = 1
            /\ bt_results' = [bt_results EXCEPT !.fixtures_tested = Len(bt_fixtures)]
    /\ UNCHANGED <<bt_fixtures, old_predictions, old_db_elo_loaded, new_db_elo_loaded,
                   noisy_draws, first_report, last_report, outcome_call>>
    /\ UNCHANGED <<eloVars, notBacktestVars, batchVars>>

\* The loop moves to the fixture after the i-th, or ends
NextFixture(i) ==
    IF i = Len(bt_fixtures)
    THEN bt_pc' = "report" /\ bt_index' = i
    ELSE bt_pc' = "old" /\ bt_index' = i + 1

\* predict_fixture raises KeyError on a fixture without home_team_id
Raises(fixture) == fixture.home_team_id = NoTeam

\* faulty variant: the handler leaves the loop
AbortAfterError(i) == bt_pc' = "report" /\ bt_index' = i

\* except Exception: log and continue with the next fixture
ContinueAfterError(i) == NextFixture(i)

\* A draw away from the mean counts against the bound
DrawNoise(noise, drawn) ==
    /\ noise \in GaussDraws(bt_fixtures[bt_index].league_id)
    /\ noise # 0 => drawn < MaxNoisyDraws

\* old_predictor.predict_fixture on the current fixture; the KeyError of a
\* fixture without home_team_id is caught and the loop continues
PredictOld ==
    /\ bt_pc = "old"
    /\ \E fixture \in {bt_fixtures[bt_index]} :
       \E after \in {SystemAfterPredict(EloState, fixture, old_db_elo_loaded)} :
          /\ SetEloState(after)
          /\ old_db_elo_loaded' = EloLoaded(old_db_elo_loaded)
          /\ IF Raises(fixture)
             THEN /\ ContinueAfterError(bt_index)
                  /\ UNCHANGED <<old_predictions, noisy_draws>>
             ELSE /\ \E noise \in GaussDraws(fixture.league_id) :
                        /\ DrawNoise(noise, noisy_draws)
                        /\ noisy_draws' = noisy_draws + (IF noise = 0 THEN 0 ELSE 1)
                        /\ old_predictions'
                             \in PredictFixture(EloState, fixture, old_db_elo_loaded, noise)
                  /\ bt_pc' = "new"
                  /\ UNCHANGED bt_index
    /\ UNCHANGED <<bt_fixtures, new_db_elo_loaded, bt_results, first_report, last_report,
                   outcome_call>>
    /\ UNCHANGED <<now, elo_calls, history_records>>
    /\ UNCHANGED <<notBacktestVars, batchVars>>

\* new_predictor.predict_fixture on the current fixture and the rest of the
\* loop body: every pair of markets_to_test is recorded for both models
PredictNew ==
    /\ bt_pc = "new"
    /\ \E fixture \in {bt_fixtures[bt_index]} :
       \E after \in {SystemAfterPredict(EloState, fixture, new_db_elo_loaded)} :
       \E noise \in GaussDraws(fixture.league_id) :
       \E new_predictions \in PredictFixture(EloState, fixture, new_db_elo_loaded, noise) :
          /\ DrawNoise(noise, noisy_draws)
          /\ noisy_draws' = noisy_draws + (IF noise = 0 THEN 0 ELSE 1)
          /\ SetEloState(after)
          /\ new_db_elo_loaded' = EloLoaded(new_db_elo_loaded)
          /\ bt_results' = RecordMarkets(bt_results, fixture, old_predictions,
                                         new_predictions, 1)
          /\ old_predictions' = NoPredictions
          /\ NextFixture(bt_index)
    /\ UNCHANGED <<bt_fixtures, old_db_elo_loaded, first_report, last_report, outcome_call>>
    /\ UNCHANGED <<now, elo_calls, history_records>>
    /\ UNCHANGED <<notBacktestVars, batchVars>>

\* print_summary and export_results: the metrics of the run
Report ==
    /\ bt_pc = "report"
    /\ bt_pc' = "done"
    /\ last_report' = CompareModels(bt_results)
    /\ first_report' = IF first_report = NoReport THEN CompareModels(bt_results)
                       ELSE first_report
    /\ UNCHANGED <<bt_fixtures, bt_index, old_predictions, old_db_elo_loaded,
                   new_db_elo_loaded, bt_results, noisy_draws, outcome_call>>
    /\ UNCHANGED <<eloVars, notBacktestVars, batchVars>>

\* main() in a new process: the module-level elo_system and backtesting are
\* new objects, as are the runner's two predictors
NewProcess ==
    /\ bt_pc \in {"done", "returned", "batched"}
    /\ bt_pc' = "idle"
    /\ bt_index' = 0
    /\ old_predictions' = NoPredictions
    /\ old_db_elo_loaded' = FALSE
    /\ new_db_elo_loaded' = FALSE
    /\ bt_results' = NoResults
    /\ last_report' = NoReport
    /\ SetEloState([ratings |-> EmptyDict, home_ratings |-> EmptyDict,
                    away_ratings |-> EmptyDict, h2h_ratings |-> EmptyDict,
                    recent_results |-> EmptyDict, last_updated |-> EmptyDict])
    /\ UNCHANGED <<bt_fixtures, noisy_draws, first_report, outcome_call>>
    /\ UNCHANGED <<now, elo_calls, history_records>>
    /\ db_elo_loaded' = FALSE
    /\ batch_call' = NoBatchCall
    /\ score_call' = NoScoreCall
    /\ UNCHANGED notBacktestVars

(***************************************************************************)
(* MatchPredictor.batch_predict and QualityScorer.batch_score, each called  *)
(* once by a process on the module-level predictor and quality_scorer.      *)
(* Scores in hundredths, the weighted final score in 1e-4.                  *)
(***************************************************************************)
BatchSize == 3
BatchFixtureLists == {TestFixtures(BatchSize, broken) : broken \in 0..BatchSize}

\* The draws of a batch: none for a fixture that raises before the draw
BatchNoises(fixtures) ==
    {noises \in [1..Len(fixtures) -> GaussDraws(39)] :
        /\ \A k \in 1..Len(fixtures) : Raises(fixtures[k]) => noises[k] = 0
        /\ noisy_draws + Cardinality({k \in 1..Len(fixtures) : noises[k] # 0})
             <= MaxNoisyDraws}

\* batch_predict from fixture k on: the rating system, the loaded flag and
\* all_predictions it can end with
RECURSIVE BatchPredictFrom(_, _, _, _, _)
BatchPredictFrom(s, loaded, fixtures, noises, k) ==
    IF k > Len(fixtures)
    THEN {[system |-> s, loaded |-> loaded, all_predictions |-> <<>>]}
    ELSE LET fixture == fixtures[k]
             rest == BatchPredictFrom(SystemAfterPredict(s, fixture, loaded),
                                      EloLoaded(loaded), fixtures, noises, k + 1)
         IN  IF Raises(fixture) THEN rest
             ELSE {[r EXCEPT !.all_predictions =
                        <<[fixture_id |-> fixture.id, predictions |-> p]>> \o @] :
                      r \in rest, p \in PredictFixture(s, fixture, loaded, noises[k])}

BatchPredict ==
    /\ bt_pc = "idle"
    /\ \E fixtures \in BatchFixtureLists :
       \E noises \in BatchNoises(fixtures) :
       \E r \in BatchPredictFrom(EloState, db_elo_loaded, fixtures, noises, 1) :
          /\ SetEloState(r.system)
          /\ db_elo_loaded' = r.loaded
          /\ noisy_draws' = noisy_draws
                              + Cardinality({k \in 1..Len(fixtures) : noises[k] # 0})
          /\ batch_call' = [made |-> TRUE, fixtures |-> fixtures,
                            all_predictions |-> r.all_predictions]
    /\ bt_pc' = "batched"
    /\ UNCHANGED <<bt_fixtures, bt_index, old_predictions, old_db_elo_loaded,
                   new_db_elo_loaded, bt_results, first_report, last_report,
                   outcome_call, score_call>>
    /\ UNCHANGED <<now, elo_calls, history_records>>
    /\ UNCHANGED notBacktestVars

LEAGUE_ACCURACY == (39 :> 62) @@ (140 :> 64) @@ (78 :> 60) @@ (135 :> 63) @@ (61 :> 65) @@ (2 :> 58) @@ (3 :> 56)
market_adjustments == ("match_winner" :> 0) @@ ("over_under_2.5" :> -2) @@ ("both_teams_score" :> -3)
NoConfidence == -1

CalculateDataCoverage(fixture) ==
    IF fixture.league_id \in {39, 140, 78, 135, 61} THEN 85
    ELSE IF fixture.league_id \in {2, 3} THEN 80
    ELSE 70

GetHistoricalAccuracy(league_id, market_key) ==
    Clamp(40, 75, DictGet(LEAGUE_ACCURACY, league_id, 55)
                    + DictGet(market_adjustments, market_key, 0))

ScoreToGrade(score) ==
    IF score >= 7500 THEN "A"
    ELSE IF score >= 6000 THEN "B"
    ELSE IF score >= 4500 THEN "C"
    ELSE IF score >= 3000 THEN "D"
    ELSE "F"

\* 0.40 * confidence raises TypeError when confidence_score is None
ScoreRaises(prediction) == prediction.confidence_score = NoConfidence

\* score_prediction without the reasoning text and the timestamp
ScorePrediction(prediction, fixture) ==
    LET data_score == CalculateDataCoverage(fixture)
        historical_accuracy == GetHistoricalAccuracy(fixture.league_id, prediction.market_key)
    IN  [fixture_id |-> fixture.id,
         market_key |-> prediction.market_key,
         data_coverage_score |-> data_score,
         model_confidence |-> prediction.confidence_score,
         historical_accuracy |-> historical_accuracy,
         final_grade |-> ScoreToGrade(35 * data_score + 40 * prediction.confidence_score
                                         + 25 * historical_accuracy)]

RECURSIVE BatchScoreFrom(_, _, _)
BatchScoreFrom(preds, fixtures, k) ==
    IF k > Len(preds) THEN <<>>
    ELSE LET pred == preds[k]
             fixture == DictGet(fixtures, pred.fixture_id,
                                 [id |-> pred.fixture_id, league_id |-> 39])
         IN  IF ScoreRaises(pred) THEN BatchScoreFrom(preds, fixtures, k + 1)
             ELSE <<ScorePrediction(pred, fixture)>>
                    \o BatchScoreFrom(preds, fixtures, k + 1)

ScoredMarkets == {"match_winner", "both_teams_score"}
ScoredConfidences == {55, 82}
ScoredLeagues == {39, 2}

\* The predictions to score: fixtures 1..BatchSize in turn, one of them
\* (or none) with no confidence
ScoredPredictions ==
    {[k \in 1..BatchSize |->
         [fixture_id |-> k, market_key |-> market_key,
          confidence_score |-> IF k = bad THEN NoConfidence ELSE confidence]] :
       market_key \in ScoredMarkets, confidence \in ScoredConfidences, bad \in 0..BatchSize}

\* The fixture lookup: fixture 1 is not in it
FixtureLookups ==
    {[k \in 2..BatchSize |-> [id |-> k, league_id |-> league_id]] :
       league_id \in ScoredLeagues}

BatchScore ==
    /\ bt_pc = "idle"
    /\ \E preds \in ScoredPredictions, fixtures \in FixtureLookups :
          score_call' = [made |-> TRUE, predictions |-> preds,
                         scores |-> BatchScoreFrom(preds, fixtures, 1)]
    /\ bt_pc' = "batched"
    /\ UNCHANGED <<bt_fixtures, bt_index, old_predictions, old_db_elo_loaded,
                   new_db_elo_loaded, bt_results, noisy_draws, first_report,
                   last_report, outcome_call, db_elo_loaded, batch_call>>
    /\ UNCHANGED <<eloVars, notBacktestVars>>

(***************************************************************************)
(* The model_predictions table and its writers: upsert_predictions          *)
(* (database.py) and generate_prediction_for_fixture                        *)
(* (prediction_generator.py).  A step is one request to the table.          *)
(***************************************************************************)
MaxRuns == 2
StoreFixtures == {1, 2}

\* The market keys of the rows predict_fixture hands to upsert_predictions
UpsertMarkets == {"match_winner", "over_under_2_5", "both_teams_score"}

\* The generator's row has no market_key: one row holds every market
NoMarketKey == "none"

\* table("model_predictions").delete().eq("fixture_id", fid).execute()
DeleteForFixture(rows, fid) == {row \in rows : row.fixture_id # fid}

\* table("model_predictions").insert(predictions).execute()
InsertRows(rows, new_rows) == rows \cup new_rows

\* The rows of a run
RunRows(run, fixture_id, markets) ==
    {[fixture_id |-> fixture_id, market_key |-> market_key, run |-> run] :
        market_key \in markets}

StoreInit == model_predictions = {} /\ runs = <<>>
StoreIdle == StoreInit

\* upsert_predictions up to the end of its delete loop
UpsertDelete ==
    /\ Len(runs) < MaxRuns
    /\ \E fid \in StoreFixtures :
          /\ model_predictions' = DeleteForFixture(model_predictions, fid)
          /\ runs' = Append(runs, [kind |-> "upsert", fixture_id |-> fid, pc |-> "insert"])
    /\ UNCHANGED notStoreVars

\* upsert_predictions: the insert
UpsertInsert ==
    /\ \E r \in 1..Len(runs) :
          /\ runs[r].kind = "upsert"
          /\ runs[r].pc = "insert"
          /\ model_predictions' =
                InsertRows(model_predictions, RunRows(r, runs[r].fixture_id, UpsertMarkets))
          /\ runs' = [runs EXCEPT ![r].pc = "done"]
    /\ UNCHANGED notStoreVars

\* generate_prediction_for_fixture with force_refresh: the delete
RefreshDelete ==
    /\ Len(runs) < MaxRuns
    /\ \E fid \in StoreFixtures :
          /\ model_predictions' = DeleteForFixture(model_predictions, fid)
          /\ runs' = Append(runs, [kind |-> "refresh", fixture_id |-> fid, pc |-> "insert"])
    /\ UNCHANGED notStoreVars

\* generate_prediction_for_fixture with force_refresh: the insert
RefreshInsert ==
    /\ \E r \in 1..Len(runs) :
          /\ runs[r].kind = "refresh"
          /\ runs[r].pc = "insert"
          /\ model_predictions' =
                InsertRows(model_predictions, RunRows(r, runs[r].fixture_id, {NoMarketKey}))
          /\ runs' = [runs EXCEPT ![r].pc = "done"]
    /\ UNCHANGED notStoreVars

\* generate_prediction_for_fixture without force_refresh: the insert alone
GeneratePrediction ==
    /\ Len(runs) < MaxRuns
    /\ \E fid \in StoreFixtures :
          /\ model_predictions' =
                InsertRows(model_predictions, RunRows(Len(runs) + 1, fid, {NoMarketKey}))
          /\ runs' = Append(runs, [kind |-> "generate", fixture_id |-> fid, pc |-> "done"])
    /\ UNCHANGED notStoreVars

(***************************************************************************)
(* The rolling list of results update_rating keeps for a team and          *)
(* _calculate_recent_form_adjustment over it.  Results in halves of a      *)
(* point (0 loss, 1 draw, 2 win), the adjustment in hundredths.            *)
(***************************************************************************)
MaxResults == 11
FormScores == {0, 2}

NoAdjustment == [made |-> FALSE]

FormInit == team_results = <<>> /\ results_recorded = 0 /\ form_call = NoAdjustment
FormIdle == FormInit

\* update_rating, step 4: append the result, keep the last 10
RecordResult ==
    /\ results_recorded < MaxResults
    /\ \E actual_score \in FormScores :
          team_results' = LastResults(Append(team_results, <<actual_score, 0>>))
    /\ results_recorded' = results_recorded + 1
    /\ form_call' = NoAdjustment
    /\ UNCHANGED notFormVars

\* _calculate_recent_form_adjustment(team_id) on the team's list
RecentFormCall ==
    /\ ~form_call.made
    /\ form_call' =
          [made |-> TRUE,
           value |-> RecentFormAdjustment([recent_results |-> (BacktestTeams[1] :> team_results)],
                                          BacktestTeams[1])]
    /\ UNCHANGED <<team_results, results_recorded>>
    /\ UNCHANGED notFormVars

(***************************************************************************)
(* DixonColesModel.predict_match.  Expected goals and tau in thousandths,  *)
(* Poisson probabilities in 1e-4, the cells of the score matrix and the    *)
(* sums over it in 1e-6, the reported probabilities in 1e-4.               *)
(***************************************************************************)
CUP_COMPETITIONS == {2, 3, 848, 4, 5}

EUROPEAN_LEAGUES == {2, 3, 848}

\* league_id = None
NoLeague == 0

\* max_goals = 10
MaxGoals == 10

\* draw_boost_cups = 0.12 and upset_factor_cups = 0.08, in 1e-6
DrawBoostCups == 120000

UpsetFactorCups == 80000

\* home_win > away_win + 0.15, in 1e-6
UpsetMargin == 150000

\* home_adv_reduction_europe = 0.35, in hundredths
HomeAdvReductionEurope == 35

\* np.clip(., 0.1, 5.0), in thousandths
MinExpectedGoals == 100

MaxExpectedGoals == 5000

\* ln 10, in 1e-4
Ln10 == 23026

\* a * m1 * m2 / b to the nearest integer, for b > 0
MulDiv(a, m1, m2, b) ==
    ((a * m1) \div b) * m2 + RoundDiv(((a * m1) % b) * m2, b)

\* The cache a fit leaves on a league of eight teams in which team 1 wins every
\* home match 9-0 and every other match ends 1-1, three rounds
LopsidedCache ==
    [exists |-> TRUE, rho |-> -3000, home_advantage |-> 4133,
     attack_params |-> [t \in 1..8 |-> IF t = 1 THEN 14077 ELSE -2011],
     defense_params |-> [t \in 1..8 |-> IF t = 1 THEN -9383 ELSE -2436],
     team_names |-> 1..8]

DcCaches == {NoCache, EarlierCache, LopsidedCache}

DcPredictTeams == {1, 2, 3}

DcPredictLeagues == {NoLeague, 39} \cup CUP_COMPETITIONS

NoDcPrediction == [made |-> FALSE]

DcPredictInit == dc_prediction = NoDcPrediction

DcPredictIdle == DcPredictInit

\* DixonColesModel() in a process that finds one of the caches
DixonColesLoaded ==
    /\ dc_cache \in DcCaches
    /\ rho = IF dc_cache.exists THEN dc_cache.rho ELSE DefaultRho
    /\ dc_home_advantage =
           IF dc_cache.exists THEN dc_cache.home_advantage ELSE DefaultDcHomeAdvantage
    /\ attack_params = IF dc_cache.exists THEN dc_cache.attack_params ELSE EmptyDict
    /\ defense_params = IF dc_cache.exists THEN dc_cache.defense_params ELSE EmptyDict
    /\ team_names = IF dc_cache.exists THEN dc_cache.team_names ELSE {}
    /\ is_fitted = dc_cache.exists
    /\ fit_call = NoFitCall
    /\ fit_calls = 0

\* tau(home_goals, away_goals, lambda_home, mu_away, rho)
Tau(home_goals, away_goals, lambda_home, mu_away, r) ==
    IF home_goals = 0 /\ away_goals = 0
        THEN 1000 - RoundDiv(RoundDiv(lambda_home * mu_away, 1000) * r, 10000)
    ELSE IF home_goals = 0 /\ away_goals = 1 THEN 1000 + RoundDiv(lambda_home * r, 10000)
    ELSE IF home_goals = 1 /\ away_goals = 0 THEN 1000 + RoundDiv(mu_away * r, 10000)
    ELSE IF home_goals = 1 /\ away_goals = 1 THEN 1000 - RoundDiv(r, 10)
    ELSE 1000

\* poisson.pmf(k, mean)
RECURSIVE PoissonPmf(_, _)
PoissonPmf(k, mean) ==
    IF k = 0 THEN ExpMilli(Ln10 - 10 * mean)
    ELSE RoundDiv(PoissonPmf(k - 1, mean) * mean, 1000 * k)

Goals == 0..MaxGoals

\* the cells of a matrix, row by row
Cells(matrix) ==
    [n \in 1..((MaxGoals + 1) * (MaxGoals + 1)) |->
        matrix[(n - 1) \div (MaxGoals + 1), (n - 1) % (MaxGoals + 1)]]

\* _predict_score_probs_adjusted(home_team_id, away_team_id, effective_home_adv)
PredictScoreProbsAdjusted(home_team_id, away_team_id, effective_home_adv) ==
    LET home_attack == DictGet(attack_params, home_team_id, 0)
        home_defense == DictGet(defense_params, home_team_id, 0)
        away_attack == DictGet(attack_params, away_team_id, 0)
        away_defense == DictGet(defense_params, away_team_id, 0)
        lambda_home == Max(MinExpectedGoals, Min(MaxExpectedGoals,
                           ExpMilli(effective_home_adv + home_attack + away_defense)))
        mu_away == Max(MinExpectedGoals, Min(MaxExpectedGoals,
                       ExpMilli(away_attack + home_defense)))
        prob_home == [i \in Goals |-> PoissonPmf(i, lambda_home)]
        prob_away == [j \in Goals |-> PoissonPmf(j, mu_away)]
        prob_matrix == [i \in Goals, j \in Goals |->
            RoundDiv(RoundDiv(prob_home[i] * prob_away[j], 100)
                       * Tau(i, j, lambda_home, mu_away, rho), 10000)]
        sum == SeqSum(Cells(prob_matrix))
    IN  [i \in Goals, j \in Goals |-> MulDiv(prob_matrix[i, j], 10000, 100, sum)]

\* faulty variant: the home advantage reduced in every cup competition
EffectiveHomeAdvEveryCup(league_id) ==
    IF league_id \in CUP_COMPETITIONS
        THEN RoundDiv(dc_home_advantage * (100 - HomeAdvReductionEurope), 100)
        ELSE dc_home_advantage

\* effective_home_adv of predict_match
EffectiveHomeAdv(league_id) ==
    IF league_id # NoLeague /\ league_id \in EUROPEAN_LEAGUES
        THEN RoundDiv(dc_home_advantage * (100 - HomeAdvReductionEurope), 100)
        ELSE dc_home_advantage

\* the match_winner entry of predict_match: the raw sums over the matrix, in cups
\* the draw boost taken from the favourite and the upset factor when home is the
\* favourite, then normalised and rounded
MatchWinner(prob_matrix, is_cup) ==
    LET raw ==
            [home_win |-> SeqSum(Cells([i \in Goals, j \in Goals |->
                                           IF i > j THEN prob_matrix[i, j] ELSE 0])),
             draw |-> SeqSum(Cells([i \in Goals, j \in Goals |->
                                       IF i = j THEN prob_matrix[i, j] ELSE 0])),
             away_win |-> SeqSum(Cells([i \in Goals, j \in Goals |->
                                           IF i < j THEN prob_matrix[i, j] ELSE 0]))]
        boosted ==
            IF raw.home_win > raw.away_win
                THEN [home_win |-> raw.home_win - RoundDiv(DrawBoostCups * 6, 10),
                      draw |-> raw.draw + DrawBoostCups,
                      away_win |-> raw.away_win - RoundDiv(DrawBoostCups * 4, 10)]
                ELSE [home_win |-> raw.home_win - RoundDiv(DrawBoostCups * 4, 10),
                      draw |-> raw.draw + DrawBoostCups,
                      away_win |-> raw.away_win - RoundDiv(DrawBoostCups * 6, 10)]
        upset ==
            IF boosted.home_win > boosted.away_win + UpsetMargin
                THEN [boosted EXCEPT !.home_win = @ - UpsetFactorCups,
                                     !.away_win = @ + UpsetFactorCups]
                ELSE boosted
        adjusted == IF is_cup THEN upset ELSE raw
        total == adjusted.home_win + adjusted.draw + adjusted.away_win
    IN  [home_win |-> MulDiv(adjusted.home_win, 100, 100, total),
         draw |-> MulDiv(adjusted.draw, 100, 100, total),
         away_win |-> MulDiv(adjusted.away_win, 100, 100, total)]

\* predict_match(home_team_id, away_team_id, league_id)
DcPredictMatchCall(home_team_id, away_team_id, league_id) ==
    \E is_cup \in {league_id # NoLeague /\ league_id \in CUP_COMPETITIONS} :
    \E effective_home_adv \in {EffectiveHomeAdv(league_id)} :
    \E prob_matrix \in
           {PredictScoreProbsAdjusted(home_team_id, away_team_id, effective_home_adv)} :
    \E over_2_5 \in {SeqSum(Cells([i \in Goals, j \in Goals |->
                                      IF i + j > 2 THEN prob_matrix[i, j] ELSE 0]))} :
    \E btts_yes \in {SeqSum(Cells([i \in Goals, j \in Goals |->
                                      IF i >= 1 /\ j >= 1 THEN prob_matrix[i, j] ELSE 0]))} :
        /\ dc_prediction' =
              [made |-> TRUE,
               home_team_id |-> home_team_id,
               away_team_id |-> away_team_id,
               league_id |-> league_id,
               prob_matrix |-> prob_matrix,
               match_winner |-> MatchWinner(prob_matrix, is_cup),
               over_under_2_5 |-> [over |-> RoundDiv(over_2_5, 100),
                                   under |-> RoundDiv(1000000 - over_2_5, 100)],
               btts |-> [yes |-> RoundDiv(btts_yes, 100),
                         no |-> RoundDiv(1000000 - btts_yes, 100)],
               model_params |->
                   [home_advantage |-> effective_home_adv,
                    rho |-> rho,
                    lambda_home |-> ExpMilli(effective_home_adv
                        + DictGet(attack_params, home_team_id, 0)
                        + DictGet(defense_params, away_team_id, 0)),
                    mu_away |-> ExpMilli(DictGet(attack_params, away_team_id, 0)
                        + DictGet(defense_params, home_team_id, 0))],
               is_cup_competition |-> is_cup]
        /\ UNCHANGED dixonColesVars
        /\ UNCHANGED notDcPredictVars

\* one call per process: predict_match reads the model and leaves it alone
DcPredictMatch ==
    /\ ~dc_prediction.made
    /\ \E home_team_id \in DcPredictTeams, away_team_id \in DcPredictTeams,
          league_id \in DcPredictLeagues :
           DcPredictMatchCall(home_team_id, away_team_id, league_id)

(***************************************************************************)
(* BacktestingFramework: add_prediction_result on the per-market lists,    *)
(* calculate_roi and calculate_correlation_matrix over them.  Predicted    *)
(* probabilities in 1e-4, odds, confidences, stakes and returns in         *)
(* hundredths, correlation coefficients in thousandths.                    *)
(***************************************************************************)
MaxAdded == 3

MaxBacktestRuns == 2

\* odds = None
NoOdds == 0

\* min_confidence = 0.6 and min_edge = 0.05 of calculate_roi, in hundredths
MinRoiConfidence == 60

MinRoiEdge == 5

\* len(self.results["new_model"][m]) >= 10
MinCorrelationSamples == 10

\* confidence_score default of run_backtest, 0.7
DefaultBacktestConfidence == 70

\* round(nan, 3): pearsonr of a constant list of outcomes
NotANumber == 9999

NoRoiCall == [made |-> FALSE]

NoCorrelationCall == [made |-> FALSE]

NoRecords == [old_model |-> EmptyDict, new_model |-> EmptyDict]

FrameworkFresh ==
    /\ fw_results = NoRecords
    /\ fw_index = 0
    /\ fw_runs = 0
    /\ fw_added = 0
    /\ roi_call = NoRoiCall
    /\ corr_call = NoCorrelationCall

FrameworkIdle == FrameworkFresh /\ fw_fixtures = <<>>

\* add_prediction_result(model_type, market_key, predicted_prob, actual_outcome,
\* odds, confidence, fixture_id) on self.results
AppendPredictionResult(results, model_type, market_key, predicted_prob, actual_outcome, odds, confidence, fixture_id) ==
    [results EXCEPT ![model_type] =
        DictSet(@, market_key,
            Append(DictGet(@, market_key, <<>>),
                   [predicted |-> predicted_prob,
                    actual |-> actual_outcome,
                    odds |-> odds,
                    confidence |-> confidence,
                    fixture_id |-> fixture_id,
                    correct |-> IF \/ predicted_prob > 5000 /\ actual_outcome = 1
                                   \/ predicted_prob <= 5000 /\ actual_outcome = 0
                                THEN 1 ELSE 0]))]

\* The records of a model over all its markets, as calculate_roi collects them
RECURSIVE AllRecords(_)
AllRecords(by_market) ==
    IF DOMAIN by_market = {} THEN <<>>
    ELSE LET m == CHOOSE k \in DOMAIN by_market : TRUE
         IN  by_market[m] \o AllRecords([k \in DOMAIN by_market \ {m} |-> by_market[k]])

\* Whether calculate_roi stakes on a record
Staked(r) ==
    /\ r.odds # NoOdds
    /\ r.confidence >= MinRoiConfidence
    /\ r.predicted * r.odds - 1000000 >= MinRoiEdge * 10000

\* What calculate_roi adds to total_returned for a staked record
Returned(r) == IF r.correct = 1 THEN r.odds ELSE 0

\* calculate_roi(model_type) over all markets
CalculateRoi(results, model_type) ==
    LET records == AllRecords(results[model_type])
        bets == SelectSeq(records, Staked)
        total_staked == 100 * Len(bets)
        total_returned == SeqSum([i \in 1..Len(bets) |-> Returned(bets[i])])
    IN  [made |-> TRUE,
         model_type |-> model_type,
         total_bets |-> Len(bets),
         total_staked |-> total_staked,
         total_returned |-> total_returned,
         roi |-> IF total_staked > 0
                 THEN RoundDiv((total_returned - total_staked) * 10000, total_staked)
                 ELSE 0,
         profit |-> total_returned - total_staked]

\* math.sqrt(x) in hundredths, for 0 <= x <= 200000
RECURSIVE SqrtFrom(_, _)
SqrtFrom(y, guess) ==
    LET next == (guess + y \div guess) \div 2
    IN  IF next >= guess THEN guess ELSE SqrtFrom(y, next)

SqrtCenti(x) == IF x = 0 THEN 0 ELSE SqrtFrom(x * 10000, x * 100)

\* round(pearsonr(outcomes_a, outcomes_b)[0], 3) for lists of 0 and 1
PearsonR(outcomes_a, outcomes_b) ==
    LET n == Len(outcomes_a)
        sum_a == SeqSum(outcomes_a)
        sum_b == SeqSum(outcomes_b)
        sum_ab == SeqSum([i \in 1..n |-> outcomes_a[i] * outcomes_b[i]])
        covariance == n * sum_ab - sum_a * sum_b
        spread == RoundDiv(SqrtCenti(n * sum_a - sum_a * sum_a)
                             * SqrtCenti(n * sum_b - sum_b * sum_b), 100)
    IN  IF spread = 0 THEN NotANumber
        ELSE Max(-1000, Min(1000, MulDiv(covariance, 1000, 100, spread)))

\* faulty variant: every market enters the matrix, however few its records
EnoughSamplesAlways(records) == TRUE

\* len(.) >= 10 of calculate_correlation_matrix
EnoughSamples(records) == Len(records) >= MinCorrelationSamples

\* calculate_correlation_matrix: for each pair of markets it reports, the
\* coefficient and the fixtures the outcomes correlated were taken from
CalculateCorrelationMatrix(results) ==
    LET new_model == results.new_model
        markets == {m \in DOMAIN new_model : EnoughSamples(new_model[m])}
        reported == {pair \in markets \X markets :
                        /\ Len(new_model[pair[1]]) = Len(new_model[pair[2]])
                        /\ EnoughSamples(new_model[pair[1]])}
    IN  [made |-> TRUE,
         summary |-> [fixtures_tested |-> 0, predictions_tested |-> 0],
         markets |-> markets,
         matrix |-> [pair \in reported |->
            [corr |-> PearsonR([i \in 1..Len(new_model[pair[1]]) |->
                                   new_model[pair[1]][i].actual],
                               [i \in 1..Len(new_model[pair[2]]) |->
                                   new_model[pair[2]][i].actual]),
             fixtures_a |-> [i \in 1..Len(new_model[pair[1]]) |->
                                new_model[pair[1]][i].fixture_id],
             fixtures_b |-> [i \in 1..Len(new_model[pair[2]]) |->
                                new_model[pair[2]][i].fixture_id]]]]

\* The predictions predict_fixture returns for the fixtures of the run: the
\* match winner and the over/under lines, and no market keyed btts
RunPredictions ==
    << [made |-> TRUE,
        markets |-> ("match_winner" :> [home_win |-> 4500, draw |-> 2700, away_win |-> 2800])
            @@ [k \in DOMAIN DefaultXgOver |->
                   [over |-> DefaultXgOver[k], under |-> 10000 - DefaultXgOver[k]]]],
       [made |-> TRUE,
        markets |-> ("match_winner" :> [home_win |-> 3100, draw |-> 2600, away_win |-> 4300])
            @@ [k \in DOMAIN DefaultXgOver |->
                   [over |-> DefaultXgOver[k], under |-> 10000 - DefaultXgOver[k]]]] >>

\* The loop over markets_to_test of run_backtest from its k-th pair on, on
\* the per-market lists
RECURSIVE RecordMarketLists(_, _, _, _, _)
RecordMarketLists(results, fixture, old, new, k) ==
    IF k > Len(markets_to_test) THEN results
    ELSE LET market_key == markets_to_test[k][1]
             outcome == markets_to_test[k][2]
             actual == GetActualOutcome(fixture, market_key, outcome)
             old_probs == ExtractMarketProbabilities(old, market_key)
             new_probs == ExtractMarketProbabilities(new, market_key)
             combined_market == <<market_key, outcome>>
         IN  IF actual = NoOutcome \/ old_probs = EmptyDict \/ new_probs = EmptyDict
             THEN RecordMarketLists(results, fixture, old, new, k + 1)
             ELSE RecordMarketLists(
                    AppendPredictionResult(
                        AppendPredictionResult(results, "old_model", combined_market,
                            DictGet(old_probs, outcome, 3300), actual, NoOdds,
                            DefaultBacktestConfidence, fixture.id),
                        "new_model", combined_market,
                        DictGet(new_probs, outcome, 3300), actual, NoOdds,
                        DefaultBacktestConfidence, fixture.id),
                    fixture, old, new, k + 1)

\* The i-th fixture of a test period whose first `scored` fixtures have their
\* scores stored
PeriodFixture(i, scored, broken) ==
    [TestFixture(i, broken) EXCEPT
        !.home_score = IF i <= scored THEN @ ELSE NoScore,
        !.away_score = IF i <= scored THEN @ ELSE NoScore]

PeriodScored == {MinCorrelationSamples - 1, MinCorrelationSamples, MinBacktestFixtures}

PeriodFixtureLists ==
    {[i \in 1..MinBacktestFixtures |-> PeriodFixture(i, scored, broken)] :
        scored \in PeriodScored, broken \in {0, 3}}

\* run_backtest up to its loop, called on the runner of the process: the first
\* call, or a further one after the earlier run has exported its report.  The
\* run sets fixtures_tested and leaves the module-level accumulator as it is
RunBacktestCall ==
    /\ fw_runs < MaxBacktestRuns
    /\ fw_runs = 0 \/ corr_call.made
    /\ Len(fw_fixtures) >= MinBacktestFixtures
    /\ fw_runs' = fw_runs + 1
    /\ fw_index' = 0
    /\ corr_call' = NoCorrelationCall
    /\ UNCHANGED <<fw_results, fw_fixtures, fw_added, roi_call>>
    /\ UNCHANGED notFrameworkVars

\* One pass of the loop of run_backtest over the fixtures: both predictors
\* predict, every pair of markets_to_test is recorded; a fixture that cannot
\* be predicted is logged and skipped
RecordFixture ==
    /\ fw_runs > 0
    /\ fw_index < Len(fw_fixtures)
    /\ ~corr_call.made
    /\ fw_index' = fw_index + 1
    /\ \E fixture \in {fw_fixtures[fw_index + 1]} :
          fw_results' =
              IF Raises(fixture) THEN fw_results
              ELSE RecordMarketLists(fw_results, fixture,
                       RunPredictions[(fixture.id % 2) + 1],
                       RunPredictions[((fixture.id + 1) % 2) + 1], 1)
    /\ UNCHANGED <<fw_fixtures, fw_runs, fw_added, roi_call, corr_call>>
    /\ UNCHANGED notFrameworkVars

\* The summary of compare_models: fixtures_tested as the run set it and
\* predictions_tested, the add_prediction_result calls counted so far
ReportSummary(results, fixtures) ==
    [fixtures_tested |-> Len(fixtures),
     predictions_tested |-> Len(AllRecords(results.old_model))
                              + Len(AllRecords(results.new_model))]

\* export_results after the loop: the summary of compare_models and
\* calculate_correlation_matrix
ExportResults ==
    /\ fw_runs > 0
    /\ fw_index = Len(fw_fixtures)
    /\ ~corr_call.made
    /\ corr_call' = [CalculateCorrelationMatrix(fw_results) EXCEPT
                         !.summary = ReportSummary(fw_results, fw_fixtures)]
    /\ UNCHANGED <<fw_results, fw_fixtures, fw_index, fw_runs, fw_added, roi_call>>
    /\ UNCHANGED notFrameworkVars

\* The arguments add_prediction_result is called with from outside a run
AddedModelTypes == {"old_model", "new_model"}

AddedProbabilities == {4000, 6000}

AddedOutcomes == {0, 1}

AddedOdds == {NoOdds, 300}

\* add_prediction_result called on the accumulator, with odds
AddPredictionResultCall ==
    /\ fw_added < MaxAdded
    /\ fw_added' = fw_added + 1
    /\ \E model_type \in AddedModelTypes, predicted_prob \in AddedProbabilities,
          actual_outcome \in AddedOutcomes, odds \in AddedOdds :
          fw_results' = AppendPredictionResult(fw_results, model_type, <<"btts", "yes">>,
                            predicted_prob, actual_outcome, odds,
                            DefaultBacktestConfidence, fw_added + 1)
    /\ roi_call' = NoRoiCall
    /\ UNCHANGED <<fw_fixtures, fw_index, fw_runs, corr_call>>
    /\ UNCHANGED notFrameworkVars

\* compare_models: calculate_roi(model_type)
CalculateRoiCall ==
    /\ ~roi_call.made
    /\ \E model_type \in AddedModelTypes : roi_call' = CalculateRoi(fw_results, model_type)
    /\ UNCHANGED <<fw_results, fw_fixtures, fw_index, fw_runs, fw_added, corr_call>>
    /\ UNCHANGED notFrameworkVars

(***************************************************************************)
(* Specifications, one per component                                       *)
(***************************************************************************)
InitParlay == ParlayInit /\ KellyIdle /\ ValueBetIdle /\ EloIdle /\ JobIdle /\ DixonColesIdle /\ PredictionIdle /\ BacktestIdle /\ StoreIdle /\ FormIdle /\ DcPredictIdle /\ FrameworkIdle

NextParlay == AddSelection \/ ValidateParlay \/ NewParlay

SpecParlay == InitParlay /\ [][NextParlay]_vars

InitKelly == KellyInit /\ ParlayIdle /\ ValueBetIdle /\ EloIdle /\ JobIdle /\ DixonColesIdle /\ PredictionIdle /\ BacktestIdle /\ StoreIdle /\ FormIdle /\ DcPredictIdle /\ FrameworkIdle

NextKelly == KellyCalculateCall

SpecKelly == InitKelly /\ [][NextKelly]_vars

InitValueBets == ValueBetInit /\ ParlayIdle /\ KellyIdle /\ EloIdle /\ JobIdle /\ DixonColesIdle /\ PredictionIdle /\ BacktestIdle /\ StoreIdle /\ FormIdle /\ DcPredictIdle /\ FrameworkIdle

NextValueBets ==
    \/ StorePrediction
    \/ InsertOddsSnapshot
    \/ DetectValueBetsCall
    \/ GetValueBetsEndpoint
    \/ NextValueBetRequest

SpecValueBets == InitValueBets /\ [][NextValueBets]_vars

InitElo == EloInit /\ ParlayIdle /\ KellyIdle /\ ValueBetIdle /\ JobIdle /\ DixonColesIdle /\ PredictionIdle /\ BacktestIdle /\ StoreIdle /\ FormIdle /\ DcPredictIdle /\ FrameworkIdle

NextElo ==
    \/ GetRatingCall
    \/ UpdateRatingCall
    \/ ApplyTimeRegressionCall
    \/ ProcessFixture
    \/ AdvanceClock

SpecElo == InitElo /\ [][NextElo]_vars

InitEloJob == JobInit /\ EloFresh /\ ratings = EmptyDict /\ ParlayIdle /\ KellyIdle /\ ValueBetIdle /\ DixonColesIdle /\ PredictionIdle /\ BacktestIdle /\ StoreIdle /\ FormIdle /\ DcPredictIdle /\ FrameworkIdle

NextEloJob ==
    \/ StartCalculateElo
    \/ StartRecalculateAllElo
    \/ JobProcessFixture
    \/ JobSaveRatings

SpecEloJob == InitEloJob /\ [][NextEloJob]_vars

InitDixonColes == DixonColesInit /\ ParlayIdle /\ KellyIdle /\ ValueBetIdle /\ EloIdle /\ JobIdle /\ PredictionIdle /\ BacktestIdle /\ StoreIdle /\ FormIdle /\ DcPredictIdle /\ FrameworkIdle

NextDixonColes ==
    \/ Fit
    \/ FitIterate
    \/ FitStore

SpecDixonColes == InitDixonColes /\ [][NextDixonColes]_vars

InitEloPredict == EloInit /\ PredictionInit /\ ParlayIdle /\ KellyIdle /\ ValueBetIdle /\ JobIdle /\ DixonColesIdle /\ BacktestIdle /\ StoreIdle /\ FormIdle /\ DcPredictIdle /\ FrameworkIdle

NextEloPredict ==
    \/ ProcessFixture
    \/ PredictMatchCall

SpecEloPredict == InitEloPredict /\ [][NextEloPredict]_vars

InitBacktest == BacktestInit /\ EloIdle /\ JobInit /\ ParlayIdle /\ KellyIdle /\ ValueBetIdle /\ DixonColesIdle /\ PredictionIdle /\ StoreIdle /\ FormIdle /\ DcPredictIdle /\ FrameworkIdle

NextActualOutcome == GetActualOutcomeCall

SpecActualOutcome == InitBacktest /\ [][NextActualOutcome]_vars

NextBacktest ==
    \/ BatchPredict
    \/ BatchScore
    \/ RunBacktest
    \/ PredictOld
    \/ PredictNew
    \/ Report
    \/ NewProcess

SpecBacktest == InitBacktest /\ [][NextBacktest]_vars

InitStore == StoreInit /\ EloIdle /\ JobInit /\ ParlayIdle /\ KellyIdle /\ ValueBetIdle /\ DixonColesIdle /\ PredictionIdle /\ BacktestIdle /\ FormIdle /\ DcPredictIdle /\ FrameworkIdle

NextStore ==
    \/ UpsertDelete
    \/ UpsertInsert
    \/ RefreshDelete
    \/ RefreshInsert
    \/ GeneratePrediction

SpecStore == InitStore /\ [][NextStore]_vars

InitForm == FormInit /\ EloIdle /\ JobInit /\ ParlayIdle /\ KellyIdle /\ ValueBetIdle /\ DixonColesIdle /\ PredictionIdle /\ BacktestIdle /\ StoreIdle /\ DcPredictIdle /\ FrameworkIdle

NextForm ==
    \/ RecordResult
    \/ RecentFormCall

SpecForm == InitForm /\ [][NextForm]_vars

InitDcPredict == DixonColesLoaded /\ DcPredictInit /\ ParlayIdle /\ KellyIdle /\ ValueBetIdle /\ EloIdle /\ JobIdle /\ PredictionIdle /\ BacktestIdle /\ StoreIdle /\ FormIdle /\ FrameworkIdle

NextDcPredict == DcPredictMatch

SpecDcPredict == InitDcPredict /\ [][NextDcPredict]_vars

InitRoi == FrameworkIdle /\ ParlayIdle /\ KellyIdle /\ ValueBetIdle /\ EloIdle /\ JobIdle /\ DixonColesIdle /\ PredictionIdle /\ BacktestIdle /\ StoreIdle /\ FormIdle /\ DcPredictIdle

NextRoi ==
    \/ AddPredictionResultCall
    \/ CalculateRoiCall

SpecRoi == InitRoi /\ [][NextRoi]_vars

InitCorrelation == FrameworkFresh /\ fw_fixtures \in PeriodFixtureLists /\ ParlayIdle /\ KellyIdle /\ ValueBetIdle /\ EloIdle /\ JobIdle /\ DixonColesIdle /\ PredictionIdle /\ BacktestIdle /\ StoreIdle /\ FormIdle /\ DcPredictIdle

NextCorrelation ==
    \/ RunBacktestCall
    \/ RecordFixture
    \/ ExportResults

SpecCorrelation == InitCorrelation /\ [][NextCorrelation]_vars

(***************************************************************************)
(* Claims about SmartParlayValidator (checked under SpecParlay)            *)
(***************************************************************************)
Validated == parlay_pc = "validated"

\* Two legs of the request that sit on the same (real) fixture
SameFixturePair(i, j) ==
    /\ i \in 1..Len(selections) /\ j \in 1..Len(selections) /\ i < j
    /\ selections[i].fixture_id = selections[j].fixture_id
    /\ selections[i].fixture_id # NoFixture

PairCorrelation(i, j) ==
    GetCorrelation(correlation_pairs, selections[i].market_key,
                   selections[j].market_key)

\* C1: validate_parlay rejects every combination in which at least one pair
\* of legs on the same fixture has |correlation| > 0.70, for any number and
\* order of legs and whatever the correlations of the other pairs.
C1_AnyHighPairRejects ==
    Validated =>
        ( (\E i, j \in 1..Len(selections) :
              SameFixturePair(i, j) /\ Abs(PairCorrelation(i, j)) > 700)
          => ~parlay_result.is_valid )

\* C2: validate_parlay rejects every combination that holds, on the same
\* fixture, both markets of a pair listed in HIGH_CORRELATION_PAIRS.
C2_ListedPairsRejected ==
    Validated =>
        ( (\E i, j \in 1..Len(selections) :
              /\ SameFixturePair(i, j)
              /\ \/ <<selections[i].market_key, selections[j].market_key>>
                        \in DOMAIN HIGH_CORRELATION_PAIRS
                 \/ <<selections[j].market_key, selections[i].market_key>>
                        \in DOMAIN HIGH_CORRELATION_PAIRS)
          => ~parlay_result.is_valid )

C4_CrossFixtureNeverPenalized ==
    Validated =>
        /\ (~parlay_result.is_valid \/ parlay_result.odds_penalty # 1000) =>
              \E i, j \in 1..Len(selections) :
                  SameFixturePair(i, j) /\ Abs(PairCorrelation(i, j)) > 300
        /\ (\A i, j \in 1..Len(selections) :
                i # j => selections[i].fixture_id # selections[j].fixture_id)
              => (parlay_result.is_valid /\ parlay_result.odds_penalty = 1000)

\* C4 witness: over 2.5 and under 2.5 (correlation -1.0), placed on two
\* different fixtures, were validated and accepted without penalty.
C4_Witness ==
    /\ Validated /\ Len(selections) >= 2
    /\ \A i, j \in 1..Len(selections) :
           i # j => selections[i].fixture_id # selections[j].fixture_id
    /\ \E i, j \in 1..Len(selections) :
           /\ selections[i].market_key = OU25_OVER
           /\ selections[j].market_key = OU25_UNDER
           /\ selections[i].fixture_id # NoFixture
           /\ selections[j].fixture_id # NoFixture
    /\ parlay_result.is_valid /\ parlay_result.odds_penalty = 1000

(***************************************************************************)
(* Claims about KellyCriterion (checked under SpecKelly)                   *)
(***************************************************************************)
KellyDone == kelly_pc = "done"

\* The rejection conditions of the claim, in the inputs' integer units
\* (p = pn/1000, odds = on/100): kelly <= 0 iff pn*on <= 100000 and
\* edge < 0.02 iff pn*on - 100000 < 20*on, for odds > 1.
KellyRejected(pn, on) ==
    \/ pn <= 0 \/ pn >= 1000
    \/ on <= 100
    \/ pn * on <= 100000
    \/ pn * on - 100000 < 20 * on
    \/ pn < 100
    \/ pn > 950

\* C5: with the default thresholds calculate returns the no-bet result
\* (kelly_fraction = half_kelly = quarter_kelly = 0, is_value_bet false)
\* exactly when probability <= 0 or >= 1, odds <= 1, full Kelly <= 0,
\* edge < 0.02, probability < 0.10 or probability > 0.95; every other input,
\* edge exactly 0.02 and probability exactly 0.10 or 0.95 included, gets
\* kelly_fraction > 0.
C5_NoBetExactly ==
    KellyDone =>
        IF KellyRejected(kelly_args.p, kelly_args.odds)
        THEN /\ kelly_result.kelly_fraction = 0
             /\ kelly_result.half_kelly = 0
             /\ kelly_result.quarter_kelly = 0
             /\ ~kelly_result.is_value_bet
        ELSE kelly_result.kelly_fraction > 0

\* C5 witness: an input whose edge is exactly 0.02 was sized with a positive
\* Kelly fraction.
C5_Witness ==
    /\ KellyDone
    /\ kelly_args.p * kelly_args.odds - 100000 = 20 * kelly_args.odds
    /\ kelly_args.p \in 100..950
    /\ kelly_result.kelly_fraction > 0
    /\ kelly_result.is_value_bet

\* min((b*p - q)/b, 0.25) * (0.5 + 0.5*confidence) as num/den
C6_Formula(pn, on, cn) ==
    LET fn == pn * on - 100000
        fd == 1000 * (on - 100)
    IN  IF 4 * fn <= fd THEN RMul(<<fn, fd>>, <<100 + cn, 200>>)
        ELSE RNorm(<<100 + cn, 4 * 200>>)

\* |v / 10000 - r| <= 0.00005
C6_IsRounding(v, r) ==
    LET d == RSub(<<v, 10000>>, r) IN RLe(<<Abs(d[1]), d[2]>>, <<1, 20000>>)

\* C6 (as claimed): for every accepted input the reported kelly_fraction
\* equals min((b*p - q)/b, 0.25) * (0.5 + 0.5*confidence), and half_kelly and
\* quarter_kelly are one half and one quarter of it.
C6_ExactKelly ==
    (KellyDone /\ kelly_result.confidence # "none") =>
        LET r == C6_Formula(kelly_args.p, kelly_args.odds, kelly_args.conf) IN
        /\ RNorm(<<kelly_result.kelly_fraction, 10000>>) = RNorm(r)
        /\ 2 * kelly_result.half_kelly = kelly_result.kelly_fraction
        /\ 4 * kelly_result.quarter_kelly = kelly_result.kelly_fraction

\* C6 (amended): for every accepted input the reported kelly_fraction is
\* min((b*p - q)/b, 0.25) * (0.5 + 0.5*confidence) rounded to 4 decimals, so it
\* never exceeds 0.25; half_kelly and quarter_kelly are one half and one
\* quarter of the unrounded value, each rounded to 4 decimals.
C6_RoundedKelly ==
    (KellyDone /\ kelly_result.confidence # "none") =>
        LET r == C6_Formula(kelly_args.p, kelly_args.odds, kelly_args.conf) IN
        /\ C6_IsRounding(kelly_result.kelly_fraction, r)
        /\ C6_IsRounding(kelly_result.half_kelly, RMul(r, <<1, 2>>))
        /\ C6_IsRounding(kelly_result.quarter_kelly, RMul(r, <<1, 4>>))
        /\ kelly_result.kelly_fraction <= 2500

\* C6 witness: p = 0.60, odds 2.00, confidence 0.8 gave 0.18, 0.09 and 0.045.
C6_Witness ==
    /\ KellyDone
    /\ kelly_args = [p |-> 600, odds |-> 200, conf |-> 80]
    /\ kelly_result.kelly_fraction = 1800
    /\ kelly_result.half_kelly = 900
    /\ kelly_result.quarter_kelly = 450

(***************************************************************************)
(* Claims about ValueBetDetector (SpecValueBets)                           *)
(***************************************************************************)
ValueBetsDone == vb_pc = "done"

ReturnedBets == {value_bets[i] : i \in 1..Len(value_bets)}

\* C7: every ValueBet returned by detect_value_bets has bookmaker odds within
\* [1.20, 10.0], a confidence of at least the detector's confidence floor, an
\* edge (model probability minus 1/odds) of at least the detector's minimum
\* edge and an expected value (probability times odds, minus 1) of at least
\* the detector's minimum EV (0.40, 0.03 and 0.02 unless a request set others).
C7_ReturnedBetsQualify ==
    ValueBetsDone =>
        \A bet \in ReturnedBets :
            /\ bet.bookmaker_odds >= 120 /\ bet.bookmaker_odds <= 1000
            /\ bet.confidence_score >= detector.min_confidence
            /\ 1000 * (bet.model_probability * bet.bookmaker_odds - 100000)
                   >= detector.min_edge * 1000 * bet.bookmaker_odds
            /\ bet.model_probability * bet.bookmaker_odds - 100000
                   >= detector.min_ev * 100

\* C7 witness: a call returned a bet although the market it evaluated also
\* offered a selection priced above 10.0 whose edge and EV qualify, and the
\* fixture also carried a prediction below the confidence floor.
C7_Witness ==
    /\ ValueBetsDone
    /\ value_bets # <<>>
    /\ vb_odds # <<>>
    /\ vb_odds[1].market_key = "match_winner"
    /\ vb_odds[1].odds_data.away = 1100
    /\ \E i \in 1..Len(predictions) :
          /\ predictions[i].market_key = "match_winner"
          /\ predictions[i].confidence_score >= detector.min_confidence
    /\ \E i \in 1..Len(predictions) :
          predictions[i].confidence_score < detector.min_confidence
    /\ \A bet \in ReturnedBets : bet.bookmaker_odds # 1100

\* The snapshots of market m in an odds list
SnapshotIndexes(odds_list, m) ==
    {i \in 1..Len(odds_list) : odds_list[i].market_key = m}

MarketsIn(odds_list) == {odds_list[i].market_key : i \in 1..Len(odds_list)}

\* One snapshot per market, each with the latest snapshot time of its market
LatestChoices(odds_list) ==
    { c \in [MarketsIn(odds_list) -> {odds_list[i] : i \in 1..Len(odds_list)}] :
        \A m \in MarketsIn(odds_list) :
            \E i \in SnapshotIndexes(odds_list, m) :
                /\ c[m] = odds_list[i]
                /\ \A j \in SnapshotIndexes(odds_list, m) :
                       odds_list[j].snapshot_at <= odds_list[i].snapshot_at }

\* C8 as stated: whatever the order of the fixture's odds list, what
\* detect_value_bets returns is what evaluating each market against a
\* snapshot with the latest snapshot time of that market gives.
C8_LatestSnapshotUsed ==
    (ValueBetsDone /\ predictions # <<>> /\ vb_odds # <<>>) =>
        \E c \in LatestChoices(vb_odds) :
            value_bets =
                SortByScore(AnalyzePredictions(EnrichedFixture(predictions, vb_odds),
                                               1, c, detector), <<>>)

FirstSnapshot(odds_list, m) ==
    odds_list[CHOOSE i \in SnapshotIndexes(odds_list, m) :
                 \A j \in SnapshotIndexes(odds_list, m) : i <= j]

\* C8 amended: detect_value_bets evaluates a market against the first
\* snapshot of that market in the fixture's odds list (every returned bet
\* carries that snapshot's bookmaker and one of its prices); in the list
\* get_value_bets passes, which get_latest_odds orders by snapshot time
\* descending, that first snapshot has the latest snapshot time of its market.
C8_FirstSnapshotUsed ==
    ValueBetsDone =>
        /\ \A bet \in ReturnedBets :
              LET s == FirstSnapshot(vb_odds, bet.market_key) IN
              /\ bet.bookmaker = s.bookmaker
              /\ \E k \in DOMAIN s.odds_data : s.odds_data[k] = bet.bookmaker_odds
        /\ vb_via = "endpoint" =>
              \A m \in MarketsIn(vb_odds) :
                  \A j \in SnapshotIndexes(odds_snapshots, m) :
                      odds_snapshots[j].snapshot_at
                          <= FirstSnapshot(vb_odds, m).snapshot_at

\* C8 witness: a direct call on a list holding an older snapshot of a market
\* before a newer one from another bookmaker returned a bet on that market.
C8_Witness ==
    /\ ValueBetsDone
    /\ vb_via = "direct"
    /\ Len(vb_odds) = 2
    /\ vb_odds[1].market_key = vb_odds[2].market_key
    /\ vb_odds[1].snapshot_at < vb_odds[2].snapshot_at
    /\ vb_odds[1].bookmaker # vb_odds[2].bookmaker
    /\ \E bet \in ReturnedBets : bet.market_key = vb_odds[1].market_key

\* C25: the value-bet screener and the predictor agree on market keys: a
\* prediction that predict_fixture emits for the over/under 2.5 goals market
\* (market key over_under_2_5) whose edge and EV against that market's odds
\* meet the thresholds is returned by detect_value_bets.
C25_OverUnderPredictionScreened ==
    ValueBetsDone =>
        \A i \in 1..Len(predictions) :
            LET pred == predictions[i]
                odds_key == NormalizeMarketKey("Goals Over/Under")
            IN  (/\ pred.market_key = OverUnderMarketKey(25)
                 /\ ~ConfidenceTooLow(pred.confidence_score, detector)
                 /\ SnapshotIndexes(vb_odds, odds_key) # {}
                 /\ ~OddsOutOfBand(FirstSnapshot(vb_odds, odds_key).odds_data.over)
                 /\ EdgeQualifies(pred.prediction.over,
                                  FirstSnapshot(vb_odds, odds_key).odds_data.over, detector)
                 /\ EvQualifies(pred.prediction.over,
                                FirstSnapshot(vb_odds, odds_key).odds_data.over, detector))
                => \E bet \in ReturnedBets :
                      /\ bet.market_key = pred.market_key
                      /\ bet.model_probability = pred.prediction.over
                      /\ bet.bookmaker_odds
                             = FirstSnapshot(vb_odds, odds_key).odds_data.over

(***************************************************************************)
(* Claims about EloRatingSystem (SpecElo)                                  *)
(***************************************************************************)
InRatingBounds(r) == r >= 120000 /\ r <= 200000

\* C9: after any sequence of get_rating, update_rating and
\* apply_time_regression calls, every team's overall, home and away rating and
\* every head-to-head rating lies in [1200, 2000].
C9_RatingsBounded ==
    /\ \A t \in DOMAIN ratings : InRatingBounds(ratings[t])
    /\ \A t \in DOMAIN home_ratings : InRatingBounds(home_ratings[t])
    /\ \A t \in DOMAIN away_ratings : InRatingBounds(away_ratings[t])
    /\ \A k \in DOMAIN h2h_ratings : InRatingBounds(h2h_ratings[k])

\* C9 witness: an update was held at a bound (an overall rating and a
\* head-to-head rating sit at 2000 or 1200) and a time regression then moved
\* the overall rating of a team that has played no match.
C9_Witness ==
    /\ elo_calls = 2
    /\ \E t \in DOMAIN ratings : ratings[t] \in {120000, 200000}
    /\ \E k \in DOMAIN h2h_ratings : h2h_ratings[k] \in {120000, 200000}
    /\ \E t \in DOMAIN ratings \cap DOMAIN last_updated :
          /\ now - last_updated[t] > 30
          /\ recent_results[t] = <<>>
          /\ ratings[t] # home_ratings[t]

Unclamped(r) == r > 120000 /\ r < 200000

\* C10: when the rating job applies update_rating to the home team and then
\* to the away team of one match, and neither new rating is held at 1200 or
\* 2000, the two overall-rating changes sum to zero (to the hundredth of a
\* point the job records).
C10_DeltasSumToZero ==
    \A i \in 1..Len(history_records) :
        (/\ i % 2 = 1
         /\ Unclamped(history_records[i].rating_after)
         /\ Unclamped(history_records[i + 1].rating_after))
        => Abs(history_records[i].rating_change
                 + history_records[i + 1].rating_change) <= 1

\* C10 witness: the job processed a fixture and neither team's new rating is
\* held at a bound.
C10_Witness ==
    /\ Len(history_records) = 2
    /\ Unclamped(history_records[1].rating_after)
    /\ Unclamped(history_records[2].rating_after)
    /\ history_records[1].rating_change # 0

(***************************************************************************)
(* Claims about the Elo rating jobs (SpecEloJob)                           *)
(***************************************************************************)
\* C11: both rating jobs apply their updates one fixture at a time in
\* non-decreasing kickoff-time order, whatever the order in which the store
\* returned the fixtures: the applied fixtures are in non-decreasing order of
\* kickoff instant, and no fixture still to be applied kicks off before one
\* already applied.
C11_ChronologicalUpdates ==
    /\ \A i, j \in 1..Len(job_applied) :
          i < j => Instant(job_applied[i].kickoff_time)
                       <= Instant(job_applied[j].kickoff_time)
    /\ job_pc = "running" =>
          \A i \in 1..Len(job_applied) :
              \A j \in job_index..Len(all_fixtures) :
                  all_fixtures[j].home_score # NoScore =>
                      Instant(job_applied[i].kickoff_time)
                          <= Instant(all_fixtures[j].kickoff_time)

\* C11 witness: a job has applied two or more updates from a list that the
\* store returned with a later fixture ahead of an earlier one.
C11_Witness ==
    /\ job_pc = "done"
    /\ Len(job_applied) >= 2
    /\ Instant(job_applied[1].kickoff_time) < Instant(job_applied[2].kickoff_time)
    /\ \E i, j \in 1..Len(job_returned) :
          /\ i < j
          /\ job_returned[i].home_score # NoScore
          /\ job_returned[j].home_score # NoScore
          /\ Instant(job_returned[i].kickoff_time)
                 > Instant(job_returned[j].kickoff_time)

\* C30: running the calculate_elo_ratings job twice over the same set of
\* finished fixtures leaves the stored team ratings as they were after the
\* first run: each finished fixture's result is applied to a team's stored
\* rating exactly once.
C30_SecondRunKeepsRatings ==
    (/\ job_pc = "done"
     /\ job_kind = "calculate"
     /\ job_runs = 2
     /\ job_first.made
     /\ job_first.kind = "calculate"
     /\ {job_returned[i] : i \in 1..Len(job_returned)} = job_first.fixtures)
        => team_elo = job_first.team_elo

(***************************************************************************)
(* Claims about DixonColesModel.fit (checked under SpecDixonColes)         *)
(***************************************************************************)
FitEnded == fit_call.pc \in {"returned", "raised"}

\* The call went through the loop and stored its parameters
FitCompleted == fit_call.pc = "returned" /\ fit_call.iteration > 0

AttackSum == SeqSum([i \in 1..Len(LeagueTeams) |->
                 IF LeagueTeams[i] \in DOMAIN attack_params
                 THEN attack_params[LeagueTeams[i]] ELSE 0])

\* C12: after fit completes on a qualifying fixture set, the stored attack
\* parameters have mean zero (up to the rounding of the fixed-point mean) and
\* every stored attack and defense parameter lies in [-1.5, 1.5].
C12_FittedParamsBounded ==
    FitCompleted =>
        /\ Abs(AttackSum) <= Cardinality(DOMAIN attack_params)
        /\ \A t \in DOMAIN attack_params : Abs(attack_params[t]) <= ParamBound
        /\ \A t \in DOMAIN defense_params : Abs(defense_params[t]) <= ParamBound

\* At least 20 finished fixtures with non-negative scores, every team of
\* which reaches the per-team minimum
QualifyingFixtures(fixtures, min_matches) ==
    LET scored == ScoredFixtures(fixtures)
    IN  /\ Len(scored) >= MinFitFixtures
        /\ \A i \in 1..Len(scored) : scored[i].home_score >= 0 /\ scored[i].away_score >= 0
        /\ \A t \in TeamsOf(scored) : TeamMatchCount(scored, t) >= min_matches

\* C13: fit completes without an unhandled exception and yields fitted
\* parameters for every list of at least 20 finished fixtures with
\* non-negative scores whose teams meet the per-team minimum.
C13_QualifyingFitCompletes ==
    (FitEnded /\ QualifyingFixtures(fit_call.fixtures, fit_call.min_matches)) =>
        fit_call.pc = "returned" /\ is_fitted

\* Fewer than 20 scored fixtures, or no team reaching the per-team minimum
TooLittleData(fixtures, min_matches) ==
    LET scored == ScoredFixtures(fixtures)
    IN  \/ Len(scored) < MinFitFixtures
        \/ ValidTeams(scored, min_matches) = {}

\* C14: when fit is called with too little data, the previously fitted
\* attack, defense, home-advantage and rho parameters and the fitted flag are
\* left exactly as they were before the call.
C14_TooLittleDataKeepsParameters ==
    (FitEnded /\ TooLittleData(fit_call.fixtures, fit_call.min_matches)) =>
        FittedParameters = fit_call.before

\* A model fitted earlier was given 19 scored fixtures and still holds the
\* earlier parameters
C14_Witness ==
    /\ FitEnded
    /\ Len(fit_call.fixtures) >= MinFitFixtures
    /\ Len(ScoredFixtures(fit_call.fixtures)) < MinFitFixtures
    /\ is_fitted
    /\ attack_params = EarlierCache.attack_params
    /\ dc_home_advantage = EarlierCache.home_advantage

(***************************************************************************)
(* Claims about predict_match (checked under SpecEloPredict)               *)
(***************************************************************************)
\* C15: the three match_winner probabilities predict_match returns sum to
\* 1.0 within 1e-6; they are whole thousandths, so they sum to 1000.
C15_ProbabilitiesSumToOne ==
    elo_prediction.made =>
        elo_prediction.home_win + elo_prediction.draw + elo_prediction.away_win = 1000

(***************************************************************************)
(* Claims about BacktestRunner (SpecActualOutcome, SpecBacktest)           *)
(***************************************************************************)
\* The markets of the claim, each with the outcomes it names
ClaimedMarkets ==
    [match_winner |-> {"home_win", "draw", "away_win"},
     both_teams_score |-> {"yes", "no"},
     over_under_1_5 |-> {"over", "under"},
     over_under_2_5 |-> {"over", "under"},
     over_under_3_5 |-> {"over", "under"}]

\* The goal line of an over/under market of the claim, in tenths
ClaimedLine(market_key) ==
    CASE market_key = "over_under_1_5" -> 15
      [] market_key = "over_under_2_5" -> 25
      [] OTHER -> 35

\* Whether the named outcome occurred in the fixture's final score
OutcomeOccurred(fixture, market_key, outcome) ==
    CASE market_key = "match_winner" ->
            CASE outcome = "home_win" -> fixture.home_score > fixture.away_score
              [] outcome = "draw" -> fixture.home_score = fixture.away_score
              [] OTHER -> fixture.home_score < fixture.away_score
      [] market_key = "both_teams_score" ->
            (outcome = "yes") = (fixture.home_score > 0 /\ fixture.away_score > 0)
      [] OTHER ->
            IF outcome = "over"
            THEN 10 * (fixture.home_score + fixture.away_score) > ClaimedLine(market_key)
            ELSE 10 * (fixture.home_score + fixture.away_score) < ClaimedLine(market_key)

\* C18: get_actual_outcome returns the true outcome (1.0) exactly when the named
\* outcome occurred in the fixture's final score, for the match_winner,
\* over_under_<line> and both_teams_score markets
C18_TrueExactlyWhenOccurred ==
    (/\ outcome_call.made
     /\ outcome_call.market_key \in DOMAIN ClaimedMarkets
     /\ outcome_call.outcome \in ClaimedMarkets[outcome_call.market_key])
    => ((outcome_call.returned = 1)
          = OutcomeOccurred(outcome_call.fixture, outcome_call.market_key,
                            outcome_call.outcome))

\* C16: with a fixed fixture list and a fixed model configuration, repeated
\* runs of run_backtest yield identical accuracy, Brier score and log-loss
\* values: every completed run reports what the first completed run reported
C16_RepeatedRunsAgree ==
    bt_pc = "done" => last_report = first_report

\* The overall rating a predictor reads for a team: the stored rating when its
\* load_elo_from_db is still to come, else the rating held, else the initial one
OverallRead(s, loaded, team_id) ==
    IF ~loaded /\ team_id \in DOMAIN team_elo THEN team_elo[team_id]
    ELSE IF team_id \in DOMAIN s.ratings THEN s.ratings[team_id]
    ELSE InitialRating(team_id, 39)

\* Every rating a predictor reads when it predicts the test fixtures
RatingsRead(s, loaded) ==
    [t \in {BacktestTeams[i] : i \in 1..Len(BacktestTeams)} |->
        [overall |-> OverallRead(s, loaded, t),
         home |-> DictGet(s.home_ratings, t, OverallRead(s, loaded, t)),
         away |-> DictGet(s.away_ratings, t, OverallRead(s, loaded, t)),
         recent |-> DictGet(s.recent_results, t, <<>>),
         h2h |-> [o \in {BacktestTeams[i] : i \in 1..Len(BacktestTeams)} |->
                    DictGet(s.h2h_ratings, <<t, o>>, OverallRead(s, loaded, t))]]]

RunsHeld(fid) == {row.run : row \in {x \in model_predictions : x.fixture_id = fid}}

\* C20: once the runs and refreshes of a fixture have ended, under any
\* interleaving, the table holds the predictions of exactly one run for the
\* fixture: at most one row per (fixture ID, market key), and no rows of an
\* older run beside those of a newer one
C20_OneRunPerFixture ==
    (\A r \in 1..Len(runs) : runs[r].pc = "done")
    => \A fid \in StoreFixtures :
          /\ (\E r \in 1..Len(runs) : runs[r].fixture_id = fid)
                => Cardinality(RunsHeld(fid)) = 1
          /\ \A x, y \in model_predictions :
                (x.fixture_id = fid /\ y.fixture_id = fid /\ x.market_key = y.market_key)
                => x = y

(***************************************************************************)
(* Claims about the recent-form adjustment (SpecForm)                      *)
(***************************************************************************)
\* 0.8 ** i, in 1e-4
RECURSIVE DecayWeight(_)
DecayWeight(i) == IF i = 0 THEN 10000 ELSE (8 * DecayWeight(i - 1)) \div 10

\* The 0.8-decayed average of the last n results, most recent first, as an
\* adjustment in hundredths: (average - 0.5) * 100
DecayedAdjustment(results, n) ==
    LET m == Min(Len(results), n)
        weighted == SeqSum([i \in 1..m |-> results[Len(results) - i + 1][1] * DecayWeight(i - 1)])
        total == SeqSum([i \in 1..m |-> DecayWeight(i - 1)])
    IN  IF m = 0 THEN 0 ELSE RoundDiv(weighted * 5000, total) - 5000

\* C21, as stated: the adjustment is the decayed average over all results
\* kept in the rolling list, up to the last 10
C21_FormOverAllKept ==
    form_call.made =>
        form_call.value = DecayedAdjustment(team_results, RecentResultsKept)

\* C21, amended: the adjustment is the decayed average over the last 5 of
\* the results kept
C21_FormOverLastFive ==
    form_call.made => form_call.value = DecayedAdjustment(team_results, 5)

\* The adjustment was computed on a full list of 10 whose older half differs
\* from its newer half
C21_Witness ==
    /\ form_call.made
    /\ Len(team_results) = RecentResultsKept
    /\ \A i \in 1..5 : team_results[i][1] = 0
    /\ \A i \in 6..10 : team_results[i][1] = 2

(***************************************************************************)
(* Claims about DixonColesModel.predict_match (SpecDcPredict)              *)
(***************************************************************************)
\* the home advantage predict_match reports, against the model's own
ReducedHomeAdvantage ==
    dc_prediction.model_params.home_advantage =
        RoundDiv(dc_home_advantage * (100 - HomeAdvReductionEurope), 100)

FullHomeAdvantage == dc_prediction.model_params.home_advantage = dc_home_advantage

\* C22, as stated: for every league of CUP_COMPETITIONS (2, 3, 848, 4, 5)
\* predict_match builds the score matrix with the home advantage reduced by 35%.
C22_ReducedInEveryCup ==
    (dc_prediction.made /\ dc_prediction.league_id \in CUP_COMPETITIONS)
        => ReducedHomeAdvantage

\* C22, amended: predict_match builds the score matrix with the home advantage
\* reduced by 35% for the leagues of EUROPEAN_LEAGUES (2, 3, 848) and with the
\* model's home advantage unchanged for every other league, the other cup
\* competitions (4, 5) included; the cup adjustments apply to all five.
C22_ReducedInEurope ==
    dc_prediction.made =>
        /\ dc_prediction.league_id \in EUROPEAN_LEAGUES => ReducedHomeAdvantage
        /\ dc_prediction.league_id \notin EUROPEAN_LEAGUES => FullHomeAdvantage
        /\ dc_prediction.is_cup_competition = (dc_prediction.league_id \in CUP_COMPETITIONS)
        /\ dc_prediction.prob_matrix =
              PredictScoreProbsAdjusted(dc_prediction.home_team_id,
                  dc_prediction.away_team_id, dc_prediction.model_params.home_advantage)

\* a cup competition outside Europe predicted with the full home advantage
C22_Witness ==
    /\ dc_prediction.made
    /\ dc_prediction.league_id \in CUP_COMPETITIONS \ EUROPEAN_LEAGUES
    /\ dc_prediction.is_cup_competition
    /\ FullHomeAdvantage
    /\ ~ReducedHomeAdvantage

\* C26: every match_winner probability predict_match returns lies in [0, 1], for
\* every team pair and every league id, the cup competitions with their draw
\* boost and upset factor included.
C26_MatchWinnerInUnitInterval ==
    dc_prediction.made =>
        \A outcome \in {"home_win", "draw", "away_win"} :
            /\ dc_prediction.match_winner[outcome] >= 0
            /\ dc_prediction.match_winner[outcome] <= 10000

\* C27: every cell of the matrix _predict_score_probs_adjusted builds is
\* non-negative, for expected goals within [0.1, 5.0] and every rho a fit can
\* produce (rho in [-0.3, 0]).
C27_CellsNonNegative ==
    (dc_prediction.made /\ rho >= -3000 /\ rho <= 0) =>
        \A i \in Goals, j \in Goals : dc_prediction.prob_matrix[i, j] >= 0

(***************************************************************************)
(* Claims about a fit that stops with an error (SpecDixonColes)            *)
(***************************************************************************)
\* C28: fit is all-or-nothing: when it stops with an error part-way, the model's
\* home advantage, attack, defense and rho are all at their values from before
\* the call, never a mixture of newly computed and previously fitted ones.
C28_FailedFitKeepsParameters ==
    fit_call.pc = "raised" =>
        /\ dc_home_advantage = fit_call.before.home_advantage
        /\ attack_params = fit_call.before.attack_params
        /\ defense_params = fit_call.before.defense_params
        /\ rho = fit_call.before.rho

(***************************************************************************)
(* Claims about the BacktestingFramework accumulator (SpecRoi,             *)
(* SpecCorrelation)                                                        *)
(***************************************************************************)
\* what the staked bets of a model whose outcome occurred pay: stake x odds
ReturnOfWonBets(model_type) ==
    LET bets == SelectSeq(AllRecords(fw_results[model_type]), Staked)
    IN  SeqSum([i \in 1..Len(bets) |-> IF bets[i].actual = 1 THEN bets[i].odds ELSE 0])

\* C29: in calculate_roi a staked bet returns stake x odds only when the
\* outcome bet on occurred (actual = 1); a bet whose outcome did not occur
\* returns nothing and is never counted as won in total_returned and profit.
C29_OnlyWonBetsReturn ==
    roi_call.made =>
        /\ roi_call.total_returned = ReturnOfWonBets(roi_call.model_type)
        /\ roi_call.profit = ReturnOfWonBets(roi_call.model_type) - roi_call.total_staked

\* C23: calculate_correlation_matrix reports a correlation between two markets
\* only from samples paired by fixture: the i-th outcome taken for one market
\* and the i-th taken for the other come from the same fixture, and a value is
\* reported only when at least 10 such pairs exist.
C23_PairedByFixture ==
    corr_call.made =>
        \A pair \in DOMAIN corr_call.matrix :
            /\ corr_call.matrix[pair].fixtures_a = corr_call.matrix[pair].fixtures_b
            /\ Len(corr_call.matrix[pair].fixtures_a) >= 10

\* two different markets correlated over the fixtures of a run in which one
\* fixture could not be predicted and left no record
C23_Witness ==
    /\ corr_call.made
    /\ \E fixture \in {fw_fixtures[3]} : Raises(fixture)
    /\ \E pair \in DOMAIN corr_call.matrix :
          /\ pair[1] # pair[2]
          /\ Len(corr_call.matrix[pair].fixtures_a) >= 10
          /\ Len(corr_call.matrix[pair].fixtures_a) < Len(fw_fixtures)
          /\ \A i \in DOMAIN corr_call.matrix[pair].fixtures_a :
                corr_call.matrix[pair].fixtures_a[i] # 3
          /\ corr_call.matrix[pair].corr # NotANumber

\* C24: each call of run_backtest reports metrics computed only from the
\* fixtures of that run: when a run starts accumulating, the accumulator holds
\* no prediction records left over from an earlier run.
C24_RunStartsEmpty ==
    /\ (fw_runs > 0 /\ fw_index = 0) => fw_results = NoRecords
    /\ corr_call.made =>
          /\ corr_call.summary.predictions_tested
                 <= 2 * Len(markets_to_test) * corr_call.summary.fixtures_tested
          /\ \A pair \in DOMAIN corr_call.matrix :
                Len(corr_call.matrix[pair].fixtures_a) <= Len(fw_fixtures)


====
